---- MODULE Spec2Model ----
(***************************************************************************)
(* StorageBuffer (src/src/Storages/StorageBuffer.cpp): a sharded in-memory *)
(* buffer in front of a destination table.  Writers append blocks to one   *)
(* of num_shards buffers under that buffer's mutex; flushBuffer moves a    *)
(* buffer's block to the destination; a background task (flushBack) and    *)
(* OPTIMIZE call flushAllBuffers; reschedule recomputes the next firing.   *)
(***************************************************************************)
EXTENDS Integers, Sequences, FiniteSets, TLC

(* ------------------------------------------------------------------------ *)
(* Bounds of the model.                                                     *)
(* ------------------------------------------------------------------------ *)
\* wall-clock seconds run from 1 to MaxNow
MaxNow == 3
\* write() calls made over a run
MaxWrites == 2
\* injected failures (destination write throws, column append throws)
MaxFaults == 2

(* ------------------------------------------------------------------------ *)
(* Blocks.  A block is its sequence of rows; a row is a small integer and   *)
(* RowBytes gives its size, so that bytes() is additive over rows.          *)
(* ------------------------------------------------------------------------ *)
Rows == {1, 2, 3, 4, 9}

RowBytes(r) == IF r = 9 THEN 8 ELSE IF r = 3 THEN 4 ELSE 2

\* the blocks a caller may hand to write(): two that fit, one with too many
\* rows, one with too many bytes
Blocks == {<<1>>, <<2, 3>>, <<4, 4, 4, 4>>, <<9>>}

RECURSIVE SumBytes(_)
SumBytes(seq) == IF seq = <<>> THEN 0 ELSE RowBytes(Head(seq)) + SumBytes(Tail(seq))

BlockRows(b) == Len(b)

BlockBytes(b) == SumBytes(b)

\* the rows of a block as a multiset: row -> number of occurrences
BagOf(seq) == [r \in Rows |-> Cardinality({i \in 1..Len(seq) : seq[i] = r})]

BagAdd(a, b) == [r \in Rows |-> a[r] + b[r]]

EmptyBag == [r \in Rows |-> 0]

(* ------------------------------------------------------------------------ *)
(* Threads.  Writers are identified by their thread id (getThreadId()).     *)
(* ------------------------------------------------------------------------ *)
Writers == {1, 2}

BgThread == 10

OptThread == 11

Flushers == {BgThread, OptThread}

Free == 0

NoShard == -1

VARIABLES
    num_shards,      \* constructor argument num_shards_
    min_thresholds,  \* constructor argument min_thresholds_: [time, rows, bytes]
    max_thresholds,  \* constructor argument max_thresholds_: [time, rows, bytes]
    now,          \* time(nullptr)
    destination,  \* what destination_id resolves to: "none", "table", "missing", "self"
    started,      \* startup() has run: flush_handle exists
    buffers,      \* buffers[s] = [data, cols, structure, first_write_time]
    mutex,        \* mutex[s] = the thread owning buffers[s].mutex, or Free
    dest,         \* the rows of the destination table, as a multiset
    events,       \* ProfileEvents counters
    metrics,      \* CurrentMetrics gauges
    deadline,     \* flush_handle: the time of the next firing, 0 = none scheduled
    wr,           \* per writer: position and locals of write()/insertIntoBuffer()
    fl,           \* per flusher: position and locals of flushAllBuffers()/flushBuffer()
    rs,           \* per thread: position and locals of reschedule()
    admitted,     \* history: the rows appended to shards so far, as a multiset
    probe,        \* the last direct call of checkThresholdsImpl: arguments and result
    schema,       \* the version of the table's columns (alter replaces them)
    structure,    \* the version of the names and types of the table's columns
    deactivated,  \* flush_handle->deactivate() has been called
    sources,      \* sources[s] = the BufferSource of the last read() for buffers[s]
    call,         \* the last call of another method: [op, args, result, value, called]
    writes,       \* number of write() calls made
    faults        \* number of failures injected

\* fixed by the constructor
config == <<num_shards, min_thresholds, max_thresholds, destination>>

\* what the methods other than write and flush change or return
control == <<schema, structure, deactivated, call>>

vars == <<config, control, sources, now, started, buffers, mutex, dest, events, metrics,
          deadline, wr, fl, rs, admitted, probe, writes, faults>>

Shards == 0..(num_shards - 1)

Max(a, b) == IF a > b THEN a ELSE b

Min(a, b) == IF a < b THEN a ELSE b

(* ------------------------------------------------------------------------ *)
(* checkThresholdsImpl: which branch fires, the value returned, and the     *)
(* ProfileEvents counter the branch increments.                             *)
(* ------------------------------------------------------------------------ *)
\* faulty variant: the comparisons are not strict
ThresholdBranch_NonStrict(rows, bytes, time_passed) ==
    IF time_passed >= min_thresholds.time /\ rows >= min_thresholds.rows
       /\ bytes >= min_thresholds.bytes
    THEN "PassedAllMinThresholds"
    ELSE IF time_passed >= max_thresholds.time THEN "PassedTimeMaxThreshold"
    ELSE IF rows >= max_thresholds.rows THEN "PassedRowsMaxThreshold"
    ELSE IF bytes >= max_thresholds.bytes THEN "PassedBytesMaxThreshold"
    ELSE "none"

ThresholdBranch(rows, bytes, time_passed) ==
    IF time_passed > min_thresholds.time /\ rows > min_thresholds.rows
       /\ bytes > min_thresholds.bytes
    THEN "PassedAllMinThresholds"
    ELSE IF time_passed > max_thresholds.time THEN "PassedTimeMaxThreshold"
    ELSE IF rows > max_thresholds.rows THEN "PassedRowsMaxThreshold"
    ELSE IF bytes > max_thresholds.bytes THEN "PassedBytesMaxThreshold"
    ELSE "none"

checkThresholdsImpl(rows, bytes, time_passed) ==
    ThresholdBranch(rows, bytes, time_passed) # "none"

\* the counters after one call of checkThresholdsImpl
ThresholdEvents(ev, rows, bytes, time_passed) ==
    LET br == ThresholdBranch(rows, bytes, time_passed)
    IN  IF br = "none" THEN ev ELSE [ev EXCEPT ![br] = @ + 1]

\* time_passed as checkThresholds and flushBuffer compute it
TimePassed(buffer, current_time) ==
    IF buffer.first_write_time # 0 THEN current_time - buffer.first_write_time ELSE 0

\* faulty variant: the block about to be appended is not counted
checkThresholds_NoAdditional(buffer, current_time, additional_rows, additional_bytes) ==
    checkThresholdsImpl(Len(buffer.data), SumBytes(buffer.data),
                        TimePassed(buffer, current_time))

checkThresholds(buffer, current_time, additional_rows, additional_bytes) ==
    checkThresholdsImpl(Len(buffer.data) + additional_rows,
                        SumBytes(buffer.data) + additional_bytes,
                        TimePassed(buffer, current_time))

\* faulty variant: the byte limit is not looked at
Oversize_RowsOnly(block) ==
    BlockRows(block) > max_thresholds.rows

\* faulty variant: both limits have to be exceeded
Oversize_Both(block) ==
    BlockRows(block) > max_thresholds.rows /\ BlockBytes(block) > max_thresholds.bytes

\* the block already exceeds the maximum limit: write() skips the buffer
Oversize(block) ==
    BlockRows(block) > max_thresholds.rows \/ BlockBytes(block) > max_thresholds.bytes

(* ------------------------------------------------------------------------ *)
(* flushBuffer, the part under the mutex before the destination write.      *)
(* ------------------------------------------------------------------------ *)
\* faulty variant: the thresholds are checked whatever check_thresholds says
FlushGate_AlwaysCheck(buffer, current_time, check_thresholds) ==
    checkThresholdsImpl(Len(buffer.data), SumBytes(buffer.data),
                        TimePassed(buffer, current_time))

\* the gate: does flushBuffer go on to swap the block out?
FlushGate(buffer, current_time, check_thresholds) ==
    IF check_thresholds
    THEN checkThresholdsImpl(Len(buffer.data), SumBytes(buffer.data),
                             TimePassed(buffer, current_time))
    ELSE Len(buffer.data) # 0

\* counters after the gate (checkThresholdsImpl is called only when check_thresholds)
GateEvents(ev, buffer, current_time, check_thresholds) ==
    IF check_thresholds
    THEN ThresholdEvents(ev, Len(buffer.data), SumBytes(buffer.data),
                         TimePassed(buffer, current_time))
    ELSE ev

\* faulty variant: the block is swapped out, first_write_time is kept
SwapOut_KeepTime(buffer) ==
    [buffer EXCEPT !.data = <<>>, !.failed = FALSE]

\* buffer.data.swap(block_to_write) with block_to_write = data.cloneEmpty();
\* first_write_time = 0
SwapOut(buffer) ==
    [buffer EXCEPT !.data = <<>>, !.first_write_time = 0, !.failed = FALSE]

\* faulty variant: the block is not put back
SwapBack_DropRows(buffer, block_to_write, current_time) ==
    [buffer EXCEPT !.first_write_time = IF @ = 0 THEN current_time ELSE @]

\* faulty variant: the block is put back, first_write_time is left at zero
SwapBack_NoTime(buffer, block_to_write, current_time) ==
    [buffer EXCEPT !.data = block_to_write]

\* the catch block: swap back, first_write_time = current_time if it is zero
SwapBack(buffer, block_to_write, current_time) ==
    [buffer EXCEPT !.data = block_to_write,
                   !.first_write_time = IF @ = 0 THEN current_time ELSE @]

MetricsAdd(mt, block) ==
    [mt EXCEPT !.Rows = @ + Len(block), !.Bytes = @ + SumBytes(block)]

MetricsSub(mt, block) ==
    [mt EXCEPT !.Rows = @ - Len(block), !.Bytes = @ - SumBytes(block)]

(* ------------------------------------------------------------------------ *)
(* Initial state: the engine as constructed; startup() has not run yet.     *)
(* ------------------------------------------------------------------------ *)
\* failed (history): a background flush of the buffer has failed and no flush
\* has taken its block out since
\* (structure: the version of the columns of data, once it has columns)
EmptyBuffer ==
    [data |-> <<>>, cols |-> FALSE, structure |-> 0, first_write_time |-> 0,
     failed |-> FALSE]

\* (walk, history: the shards the try-locks of the walk locked, each with the
\* rows it then held)
WriterIdle ==
    [pc |-> "idle", block |-> <<>>, shard_num |-> 0, try_no |-> 0,
     least |-> NoShard, least_rows |-> 0, lock |-> NoShard,
     current_time |-> 0, block_to_write |-> <<>>, structure |-> 0,
     walk |-> <<>>, result |-> "none", into |-> {}, direct |-> FALSE]

\* quiet (history): no write() was in progress when the call began and none
\* has begun since
FlusherIdle ==
    [pc |-> "idle", i |-> 0, check |-> FALSE, current_time |-> 0,
     block_to_write |-> <<>>, result |-> "none", quiet |-> FALSE]

time_t_max == 2147483647

RsIdle == [pc |-> "idle", i |-> 0, min_first_write_time |-> 0, rows |-> 0]

RsStart == [pc |-> "lock", i |-> 0, min_first_write_time |-> time_t_max, rows |-> 0]

\* the columns of the table: a row r has r in column "id" and its size in
\* column "size"
ColumnNames == {"id", "size"}

Value(name, r) == IF name = "id" THEN r ELSE RowBytes(r)

\* buffer.data.getByName(name).column
Column(name, data) == [i \in 1..Len(data) |-> Value(name, data[i])]

\* the columns column_names of a block
Project(data, column_names) == [name \in column_names |-> Column(name, data)]

\* no BufferSource: read() has not been called
\* (seen, history: the rows of the buffer when generate() held its mutex)
NoSource ==
    [column_names |-> {}, has_been_read |-> FALSE, chunks |-> <<>>, ended |-> TRUE,
     seen |-> <<>>]

\* no method other than write and flush has been called
\* (called: the method has called into the destination table object)
NoCallYet ==
    [op |-> "none", args |-> <<>>, result |-> "none", value |-> 0, called |-> FALSE]

Thresholds(time, rows, bytes) == [time |-> time, rows |-> rows, bytes |-> bytes]

InitWith(ws, n, min, max, dests) ==
    /\ num_shards = n
    /\ min_thresholds = min
    /\ max_thresholds = max
    /\ now = 1
    /\ destination \in dests
    /\ started = FALSE
    /\ buffers = [s \in 0..(n - 1) |-> EmptyBuffer]
    /\ mutex = [s \in 0..(n - 1) |-> Free]
    /\ dest = EmptyBag
    /\ events = [Flush |-> 0, ErrorOnFlush |-> 0, PassedAllMinThresholds |-> 0,
                 PassedTimeMaxThreshold |-> 0, PassedRowsMaxThreshold |-> 0,
                 PassedBytesMaxThreshold |-> 0]
    /\ metrics = [Rows |-> 0, Bytes |-> 0]
    /\ deadline = 0
    /\ wr = [w \in ws |-> WriterIdle]
    /\ fl = [t \in Flushers |-> FlusherIdle]
    /\ rs = [t \in ws \cup {BgThread} |-> RsIdle]
    /\ admitted = EmptyBag
    /\ probe = [rows |-> 0, bytes |-> 0, time_passed |-> 0, result |-> FALSE]
    /\ sources = [s \in 0..(n - 1) |-> NoSource]
    /\ schema = 0
    /\ structure = 0
    /\ deactivated = FALSE
    /\ call = NoCallYet
    /\ writes = 0
    /\ faults = 0

Init ==
    InitWith(Writers, 2, Thresholds(0, 1, 2), Thresholds(1, 3, 7),
             {"none", "table", "missing", "self"})

(* ------------------------------------------------------------------------ *)
(* Time and lifecycle.                                                      *)
(* ------------------------------------------------------------------------ *)
\* a second passes, up to the horizon
TickTo(horizon) ==
    /\ now < horizon
    /\ now' = now + 1
    /\ UNCHANGED <<config, control, sources, probe, admitted, started, buffers, mutex, dest, events, metrics,
                   deadline, wr, fl, rs, writes, faults>>

Tick == TickTo(MaxNow)

\* startup(): createTask + activateAndSchedule: the task fires at once
Startup ==
    /\ ~started
    /\ started' = TRUE
    /\ deadline' = now
    /\ UNCHANGED <<config, control, sources, probe, admitted, now, buffers, mutex, dest, events, metrics,
                   wr, fl, rs, writes, faults>>

(* ------------------------------------------------------------------------ *)
(* BufferBlockOutputStream::write                                           *)
(* ------------------------------------------------------------------------ *)
\* write() is over: the locals are gone, the outcome stays visible
\* ("mismatch": assertBlocksHaveEqualStructure in appendBlock threw)
WriterReturn(r, result) ==
    [WriterIdle EXCEPT !.block = r.block, !.result = result,
                       !.into = r.into, !.direct = r.direct]

\* the entry of write(): empty block, destination lookup, oversize bypass
\* (writeBlockToDestination without any mutex), or the start of the walk
WriteCall(w, block, ok, limit) ==
    /\ started
    /\ wr[w].pc = "idle"
    /\ writes < limit
    /\ writes' = writes + 1
    /\ ok \/ faults < MaxFaults
    /\ LET r == [WriterIdle EXCEPT !.block = block, !.structure = structure]
       IN  IF BlockRows(block) = 0
           THEN /\ ok
                /\ wr' = [wr EXCEPT ![w] = WriterReturn(r, "empty")]
                /\ UNCHANGED <<dest, faults>>
           ELSE IF destination = "self"
           THEN /\ ok
                /\ wr' = [wr EXCEPT ![w] = WriterReturn(r, "infinite_loop")]
                /\ UNCHANGED <<dest, faults>>
           ELSE IF Oversize(block)
           THEN IF destination = "table"
                THEN IF ok
                     THEN /\ dest' = BagAdd(dest, BagOf(block))
                          /\ wr' = [wr EXCEPT ![w] =
                                      WriterReturn([r EXCEPT !.direct = TRUE], "bypassed")]
                          /\ UNCHANGED faults
                     ELSE /\ faults' = faults + 1
                          /\ wr' = [wr EXCEPT ![w] = WriterReturn(r, "threw")]
                          /\ UNCHANGED dest
                ELSE /\ ok
                     /\ wr' = [wr EXCEPT ![w] = WriterReturn(r, "dropped")]
                     /\ UNCHANGED <<dest, faults>>
           ELSE /\ ok
                /\ wr' = [wr EXCEPT ![w] =
                            [r EXCEPT !.pc = "try", !.shard_num = w % num_shards]]
                /\ UNCHANGED <<dest, faults>>
    /\ fl' = [fl EXCEPT ![OptThread].quiet = FALSE]
    /\ UNCHANGED <<config, control, sources, probe, admitted, now, started, buffers, mutex, events,
                   metrics, deadline, rs>>

\* the end of one iteration of the walk: next shard, or leave the loop
Advance(r) ==
    LET n == r.try_no + 1
    IN  [r EXCEPT !.shard_num = (r.shard_num + 1) % num_shards,
                  !.try_no = n,
                  !.lock = NoShard,
                  !.pc = IF n < num_shards THEN "try"
                         ELSE IF r.least = NoShard THEN "block" ELSE "insert"]

\* std::unique_lock lock(mutex, std::try_to_lock)
TryLock(w) ==
    /\ wr[w].pc = "try"
    /\ LET s == wr[w].shard_num
       IN  IF mutex[s] = Free
           THEN /\ mutex' = [mutex EXCEPT ![s] = w]
                /\ wr' = [wr EXCEPT ![w] = [@ EXCEPT !.pc = "pick", !.lock = s]]
           ELSE /\ wr' = [wr EXCEPT ![w] = Advance(@)]
                /\ UNCHANGED mutex
    /\ UNCHANGED <<config, control, sources, probe, admitted, now, started, buffers, dest, events, metrics,
                   deadline, fl, rs, writes, faults>>

\* faulty variant: a shard with as many rows displaces the candidate
Better_NonStrict(r, num_rows) ==
    r.least = NoShard \/ num_rows <= r.least_rows

\* is the shard just locked the new least busy one?
Better(r, num_rows) ==
    r.least = NoShard \/ num_rows < r.least_rows

\* faulty variant: the lock held before stays locked
MoveLock_Leak(mx, old, s) == mx

\* least_busy_lock = std::move(lock): the mutex least_busy_lock held before
\* (shard old, if any) is unlocked, the one of shard s stays locked
MoveLock(mx, old, s) ==
    [m \in Shards |-> IF m = old /\ m # s THEN Free ELSE mx[m]]

\* lock.owns_lock(): keep the lock if the shard is the least busy so far
\* (the move assignment releases the lock held before), else drop it
Pick(w) ==
    /\ wr[w].pc = "pick"
    /\ LET r == wr[w]
           s == r.lock
           num_rows == Len(buffers[s].data)
       IN  IF Better(r, num_rows)
           THEN /\ mutex' = MoveLock(mutex, r.least, s)
                /\ wr' = [wr EXCEPT ![w] =
                            Advance([r EXCEPT !.least = s, !.least_rows = num_rows,
                                              !.walk = Append(@, <<s, num_rows>>)])]
           ELSE /\ mutex' = [mutex EXCEPT ![s] = Free]
                /\ wr' = [wr EXCEPT ![w] =
                            Advance([r EXCEPT !.walk = Append(@, <<s, num_rows>>)])]
    /\ UNCHANGED <<config, control, sources, probe, admitted, now, started, buffers, dest, events, metrics,
                   deadline, fl, rs, writes, faults>>

\* nothing could be locked: wait on the mutex of the start shard
BlockingLock(w) ==
    /\ wr[w].pc = "block"
    /\ LET s == w % num_shards
       IN  /\ mutex[s] = Free
           /\ mutex' = [mutex EXCEPT ![s] = w]
           /\ wr' = [wr EXCEPT ![w] = [@ EXCEPT !.pc = "insert", !.least = s]]
    /\ UNCHANGED <<config, control, sources, probe, admitted, now, started, buffers, dest, events, metrics,
                   deadline, fl, rs, writes, faults>>

(* ------------------------------------------------------------------------ *)
(* insertIntoBuffer and appendBlock                                         *)
(* ------------------------------------------------------------------------ *)
\* faulty variant: the columns of the buffer are appended to in place, also
\* when a chunk holds them
SourceAfterAppend_InPlace(source, to, from) ==
    IF source.chunks # <<>> /\ source.chunks[1].columns = Project(to, source.column_names)
    THEN [source EXCEPT !.chunks[1].columns = Project(to \o from, source.column_names)]
    ELSE source

\* IColumn::mutate(std::move(column)) in appendBlock: a column that a chunk
\* of the source also holds is copied before it is appended to, so the chunk
\* stays as it is
SourceAfterAppend(source, to, from) == source

\* appendBlock(from, to) when no column append throws
\* faulty variant: the append keeps the shard as it was
appendBlock_Nothing(from, to) == to

appendBlock(from, to) == to \o from

\* the tail of insertIntoBuffer (first_write_time, appendBlock) and, in
\* write(), the unlock; ok = no column append threw.  appendBlock adds to the
\* gauges before the try and its rollback only cuts the columns; before
\* that, assertBlocksHaveEqualStructure(from, to) throws when the columns of
\* the block are not those of the shard.
AppendTail(w, s, buffer, current_time, mt, ok) ==
    LET b1 == [buffer EXCEPT
                 !.first_write_time = IF @ = 0 THEN current_time ELSE @]
        b2 == IF ok THEN [b1 EXCEPT !.data = appendBlock(wr[w].block, @)] ELSE b1
    IN  IF b1.structure # wr[w].structure
        THEN /\ ok
             /\ buffers' = [buffers EXCEPT ![s] = b1]
             /\ metrics' = mt
             /\ mutex' = [mutex EXCEPT ![s] = Free]
             /\ wr' = [wr EXCEPT ![w] = WriterReturn(@, "mismatch")]
             /\ UNCHANGED <<faults, rs, admitted, sources>>
        ELSE /\ ok \/ faults < MaxFaults
             /\ faults' = IF ok THEN faults ELSE faults + 1
             /\ buffers' = [buffers EXCEPT ![s] = b2]
             /\ metrics' = MetricsAdd(mt, wr[w].block)
             /\ mutex' = [mutex EXCEPT ![s] = Free]
             /\ wr' = [wr EXCEPT ![w] =
                         IF ok
                         THEN [WriterReturn([@ EXCEPT !.into = @ \cup {s}], "none")
                                 EXCEPT !.pc = "resched"]
                         ELSE WriterReturn(@, "threw")]
             /\ rs' = IF ok THEN [rs EXCEPT ![w] = RsStart] ELSE rs
             /\ admitted' = IF ok THEN BagAdd(admitted, BagOf(wr[w].block))
                             ELSE admitted
             /\ sources' = IF ok
                            THEN [sources EXCEPT ![s] =
                                    SourceAfterAppend(@, b1.data, wr[w].block)]
                            ELSE sources

\* insertIntoBuffer under the lock of the chosen shard, up to the
\* destination write of an inline flush (if there is one)
Insert(w, ok) ==
    /\ wr[w].pc = "insert"
    /\ LET s == wr[w].least
           buffer == buffers[s]
           block == wr[w].block
           current_time == now
       IN  IF ~buffer.cols
           THEN /\ AppendTail(w, s, [buffer EXCEPT !.cols = TRUE,
                                                    !.structure = wr[w].structure],
                              current_time, metrics, ok)
                /\ UNCHANGED events
           ELSE IF checkThresholds(buffer, current_time, BlockRows(block),
                                   BlockBytes(block))
           THEN LET ev == ThresholdEvents(events,
                                          Len(buffer.data) + BlockRows(block),
                                          SumBytes(buffer.data) + BlockBytes(block),
                                          TimePassed(buffer, current_time))
                IN  IF ~FlushGate(buffer, current_time, FALSE)
                    THEN /\ AppendTail(w, s, buffer, current_time, metrics, ok)
                         /\ events' = ev
                    ELSE IF destination = "none"
                    THEN /\ AppendTail(w, s, SwapOut(buffer), current_time,
                                       MetricsSub(metrics, buffer.data), ok)
                         /\ events' = [ev EXCEPT !.Flush = @ + 1]
                    ELSE /\ ok
                         /\ buffers' = [buffers EXCEPT ![s] = SwapOut(buffer)]
                         /\ metrics' = MetricsSub(metrics, buffer.data)
                         /\ events' = [ev EXCEPT !.Flush = @ + 1]
                         /\ wr' = [wr EXCEPT ![w] =
                                     [@ EXCEPT !.pc = "iflush",
                                               !.current_time = current_time,
                                               !.block_to_write = buffer.data]]
                         /\ UNCHANGED <<mutex, rs, faults, admitted, sources>>
           ELSE /\ AppendTail(w, s, buffer, current_time, metrics, ok)
                /\ UNCHANGED events
    /\ UNCHANGED <<config, control, probe, now, started, dest, deadline, fl, writes>>

\* faulty variant: the exception of the inline flush is swallowed
Rethrow_Swallow(writer) == WriterReturn(writer, "ok")

\* throw; at the end of the catch block of flushBuffer, called from
\* insertIntoBuffer with the mutex held by write(): the exception leaves
\* insertIntoBuffer before appendBlock and write() before reschedule()
Rethrow(writer) == WriterReturn(writer, "threw")

\* the inline flush's writeBlockToDestination returns or throws (the shard
\* stays locked meanwhile); on return insertIntoBuffer goes on to append
InlineFlushWrite(w, ok, aok) ==
    /\ wr[w].pc = "iflush"
    /\ LET s == wr[w].least
           block_to_write == wr[w].block_to_write
           current_time == wr[w].current_time
       IN  IF destination = "missing"
           THEN /\ ok
                /\ AppendTail(w, s, buffers[s], current_time, metrics, aok)
                /\ UNCHANGED <<dest, events>>
           ELSE IF ok /\ destination = "table"
           THEN /\ dest' = BagAdd(dest, BagOf(block_to_write))
                /\ AppendTail(w, s, buffers[s], current_time, metrics, aok)
                /\ UNCHANGED events
           ELSE /\ ~ok /\ aok
                /\ faults < MaxFaults
                /\ faults' = faults + 1
                /\ events' = [events EXCEPT !.ErrorOnFlush = @ + 1]
                /\ metrics' = MetricsAdd(metrics, block_to_write)
                /\ buffers' = [buffers EXCEPT ![s] =
                                 SwapBack(@, block_to_write, current_time)]
                /\ mutex' = [mutex EXCEPT ![s] = Free]
                /\ wr' = [wr EXCEPT ![w] = Rethrow(@)]
                /\ UNCHANGED <<dest, rs, admitted, sources>>
    /\ UNCHANGED <<config, control, probe, now, started, deadline, fl, writes>>

(* ------------------------------------------------------------------------ *)
(* reschedule                                                               *)
(* ------------------------------------------------------------------------ *)
\* flush_handle->scheduleAfter(seconds * 1000): the next firing replaces the
\* pending one
scheduleAfter(seconds) == now + seconds

\* the delay reschedule computes from min_first_write_time
RescheduleDelay(min_first_write_time) ==
    LET time_passed == now - min_first_write_time
        min == Max(min_thresholds.time - time_passed, 1)
        max == Max(max_thresholds.time - time_passed, 1)
    IN  Min(min, max)

\* faulty variant: rows is overwritten like min_first_write_time
RescheduleScan_LastRows(r, buffer) ==
    [r EXCEPT !.min_first_write_time = buffer.first_write_time,
              !.rows = Len(buffer.data)]

\* what the loop of reschedule keeps of the buffer it has locked
RescheduleScan(r, buffer) ==
    [r EXCEPT !.min_first_write_time = buffer.first_write_time,
              !.rows = @ + Len(buffer.data)]

\* std::lock_guard lock(buffer.mutex) in the loop of reschedule
RescheduleLock(t) ==
    /\ rs[t].pc = "lock"
    /\ mutex[rs[t].i] = Free
    /\ mutex' = [mutex EXCEPT ![rs[t].i] = t]
    /\ rs' = [rs EXCEPT ![t] = [@ EXCEPT !.pc = "read"]]
    /\ UNCHANGED <<config, control, sources, probe, admitted, now, started, buffers, dest, events, metrics,
                   deadline, wr, fl, writes, faults>>

\* the body of the loop and, after the last buffer, the rest of reschedule;
\* then the caller (write or flushBack) returns
RescheduleRead(t) ==
    /\ rs[t].pc = "read"
    /\ LET r == RescheduleScan(rs[t], buffers[rs[t].i])
       IN  /\ mutex' = [mutex EXCEPT ![rs[t].i] = Free]
           /\ IF r.i + 1 < num_shards
              THEN /\ rs' = [rs EXCEPT ![t] = [r EXCEPT !.pc = "lock", !.i = @ + 1]]
                   /\ UNCHANGED <<deadline, wr, fl>>
              ELSE /\ rs' = [rs EXCEPT ![t] = RsIdle]
                   /\ deadline' = IF r.rows = 0 THEN deadline
                                  ELSE scheduleAfter(RescheduleDelay(r.min_first_write_time))
                   /\ IF t = BgThread
                      THEN /\ fl' = [fl EXCEPT ![t] = FlusherIdle]
                           /\ UNCHANGED wr
                      ELSE /\ wr' = [wr EXCEPT ![t] = WriterReturn(@, "ok")]
                           /\ UNCHANGED fl
    /\ UNCHANGED <<config, control, sources, probe, admitted, now, started, buffers, dest, events, metrics,
                   writes, faults>>

(* ------------------------------------------------------------------------ *)
(* flushBack, optimize, flushAllBuffers, flushBuffer                        *)
(* ------------------------------------------------------------------------ *)
\* the background task fires: flushBack calls flushAllBuffers(true)
Fire ==
    /\ started
    /\ ~deactivated
    /\ deadline # 0
    /\ now >= deadline
    /\ fl[BgThread].pc = "idle"
    /\ deadline' = 0
    /\ fl' = [fl EXCEPT ![BgThread] = [FlusherIdle EXCEPT !.pc = "enter", !.check = TRUE]]
    /\ UNCHANGED <<config, control, sources, probe, admitted, now, started, buffers, mutex, dest, events,
                   metrics, wr, rs, writes, faults>>

\* optimize(partition = {}, final = false, deduplicate = false):
\* flushAllBuffers(false)
Optimize ==
    /\ fl[OptThread].pc = "idle"
    /\ fl' = [fl EXCEPT ![OptThread] =
                [FlusherIdle EXCEPT !.pc = "enter",
                                    !.quiet = \A w \in DOMAIN wr : wr[w].pc = "idle"]]
    /\ UNCHANGED <<config, control, sources, probe, admitted, now, started, buffers, mutex, dest, events,
                   metrics, deadline, wr, rs, writes, faults>>

\* flushBuffer returned: flushAllBuffers goes to the next buffer, or is over
\* (flushBack then calls reschedule, optimize returns true)
FlushReturned(t, f) ==
    IF f.i + 1 < num_shards
    THEN [FlusherIdle EXCEPT !.pc = "enter", !.check = f.check, !.i = f.i + 1,
                             !.quiet = f.quiet]
    ELSE IF t = BgThread
    THEN [FlusherIdle EXCEPT !.pc = "resched"]
    ELSE [FlusherIdle EXCEPT !.result = "ok", !.quiet = f.quiet]

\* flushBuffer threw: flushAllBuffers is left; flushBack catches, logs and
\* calls reschedule, optimize throws
FlushThrew(t, f) ==
    IF t = BgThread
    THEN [FlusherIdle EXCEPT !.pc = "resched"]
    ELSE [FlusherIdle EXCEPT !.result = "threw", !.quiet = f.quiet]

\* reschedule starts when flushBack gets there
RsAfter(t, f) ==
    IF f.pc = "resched" THEN [rs EXCEPT ![t] = RsStart] ELSE rs

\* flushBuffer: current_time = time(nullptr), taken before the lock
FlushEnter(t) ==
    /\ fl[t].pc = "enter"
    /\ fl' = [fl EXCEPT ![t] = [@ EXCEPT !.pc = "lock", !.current_time = now]]
    /\ UNCHANGED <<config, control, sources, probe, admitted, now, started, buffers, mutex, dest, events,
                   metrics, deadline, wr, rs, writes, faults>>

\* faulty variant: the buffer is unlocked for the time of the destination write
MutexDuringWrite_Unlocked(t) == Free

\* "For simplicity, buffer is locked during write": who holds the mutex of
\* the buffer while flushBuffer is in writeBlockToDestination
MutexDuringWrite(t) == t

\* flushBuffer: lock.lock(), the gate, the swap, up to the destination write
FlushLock(t) ==
    /\ fl[t].pc = "lock"
    /\ LET f == fl[t]
           s == f.i
           buffer == buffers[s]
           ev == GateEvents(events, buffer, f.current_time, f.check)
       IN  /\ mutex[s] = Free
           /\ IF ~FlushGate(buffer, f.current_time, f.check)
              THEN /\ events' = ev
                   /\ fl' = [fl EXCEPT ![t] = FlushReturned(t, f)]
                   /\ rs' = RsAfter(t, FlushReturned(t, f))
                   /\ UNCHANGED <<buffers, mutex, metrics>>
              ELSE /\ events' = [ev EXCEPT !.Flush = @ + 1]
                   /\ buffers' = [buffers EXCEPT ![s] = SwapOut(buffer)]
                   /\ metrics' = MetricsSub(metrics, buffer.data)
                   /\ IF destination = "none"
                      THEN /\ fl' = [fl EXCEPT ![t] = FlushReturned(t, f)]
                           /\ rs' = RsAfter(t, FlushReturned(t, f))
                           /\ UNCHANGED mutex
                      ELSE /\ fl' = [fl EXCEPT ![t] =
                                       [f EXCEPT !.pc = "write",
                                                 !.block_to_write = buffer.data]]
                           /\ mutex' = [mutex EXCEPT ![s] = MutexDuringWrite(t)]
                           /\ UNCHANGED rs
    /\ UNCHANGED <<config, control, sources, probe, admitted, now, started, dest, deadline, wr, writes, faults>>

\* flushBuffer: writeBlockToDestination returns or throws, then the unlock
FlushWrite(t, ok) ==
    /\ fl[t].pc = "write"
    /\ LET f == fl[t]
           s == f.i
       IN  IF ok /\ destination \in {"table", "missing"}
           THEN /\ dest' = IF destination = "table"
                           THEN BagAdd(dest, BagOf(f.block_to_write)) ELSE dest
                /\ fl' = [fl EXCEPT ![t] = FlushReturned(t, f)]
                /\ rs' = RsAfter(t, FlushReturned(t, f))
                /\ mutex' = [mutex EXCEPT ![s] = Free]
                /\ UNCHANGED <<buffers, events, metrics, faults>>
           ELSE /\ ~ok /\ destination # "missing"
                /\ faults < MaxFaults
                /\ faults' = faults + 1
                /\ events' = [events EXCEPT !.ErrorOnFlush = @ + 1]
                /\ metrics' = MetricsAdd(metrics, f.block_to_write)
                /\ buffers' = [buffers EXCEPT ![s] =
                                 [SwapBack(@, f.block_to_write, f.current_time)
                                    EXCEPT !.failed = (t = BgThread)]]
                /\ mutex' = [mutex EXCEPT ![s] = Free]
                /\ fl' = [fl EXCEPT ![t] = FlushThrew(t, f)]
                /\ rs' = RsAfter(t, FlushThrew(t, f))
                /\ UNCHANGED dest
    /\ UNCHANGED <<config, control, sources, probe, admitted, now, started, deadline, wr, writes>>

(* ------------------------------------------------------------------------ *)
(* read: the BufferSources, one per buffer                                  *)
(* ------------------------------------------------------------------------ *)
\* the column_names a query asks for
Requests == {{"id"}, {"size"}, {"id", "size"}}

\* read(): the destination is not the table itself; one BufferSource per
\* buffer, over the columns asked for
ReadSources(column_names) ==
    /\ destination \in {"none", "table"}
    /\ \A s \in Shards : sources[s].ended
    /\ sources' = [s \in Shards |->
                     [NoSource EXCEPT !.column_names = column_names, !.ended = FALSE]]
    /\ UNCHANGED <<config, control, now, started, buffers, mutex, dest, events, metrics,
                   deadline, wr, fl, rs, admitted, probe, writes, faults>>

\* what generate() returns under the mutex of the buffer
Chunk(data, column_names) ==
    [columns |-> Project(data, column_names), size |-> Len(data)]

\* BufferSource::generate(), under std::lock_guard lock(buffer.mutex); a
\* source that returns an empty chunk is finished
Generate(s) ==
    /\ ~sources[s].ended
    /\ mutex[s] = Free
    /\ sources' = [sources EXCEPT ![s] =
                     IF @.has_been_read
                     THEN [@ EXCEPT !.ended = TRUE]
                     ELSE IF Len(buffers[s].data) = 0
                     THEN [@ EXCEPT !.has_been_read = TRUE, !.ended = TRUE]
                     ELSE [@ EXCEPT !.has_been_read = TRUE,
                                    !.seen = buffers[s].data,
                                    !.chunks = Append(@, Chunk(buffers[s].data,
                                                               sources[s].column_names))]]
    /\ UNCHANGED <<config, control, now, started, buffers, mutex, dest, events, metrics,
                   deadline, wr, fl, rs, admitted, probe, writes, faults>>

(* ------------------------------------------------------------------------ *)
(* The other methods: totalRows, totalBytes, read, mayBenefitFromIndexForIn, *)
(* getQueryProcessingStage, optimize with arguments, alter, shutdown.        *)
(* ------------------------------------------------------------------------ *)
MaxAlters == 2

\* std::optional<UInt64> without a value
Unknown == -1

RECURSIVE SumRows(_)
\* rows += buffer.data.rows() over buffers 0..n-1
SumRows(n) == IF n = 0 THEN 0 ELSE SumRows(n - 1) + Len(buffers[n - 1].data)

RECURSIVE SumShardBytes(_)
\* bytes += buffer.data.bytes() over buffers 0..n-1
SumShardBytes(n) ==
    IF n = 0 THEN 0 ELSE SumShardBytes(n - 1) + SumBytes(buffers[n - 1].data)

RECURSIVE BufferRows(_)
\* what the BufferSources of buffers 0..n-1 generate
BufferRows(n) ==
    IF n = 0 THEN EmptyBag
    ELSE BagAdd(BufferRows(n - 1), BagOf(buffers[n - 1].data))

\* the number of rows of the destination table
DestinationRows == dest[1] + dest[2] + dest[3] + dest[4] + dest[9]

\* how a call that recurses without end is over
NoReturn == {"crash", "hang"}

Returned(op, args, result, value, called) ==
    [op |-> op, args |-> args, result |-> result, value |-> value, called |-> called]

\* a method that changes nothing but its result
Answer(c) ==
    /\ call.result # "running"
    /\ call' = c
    /\ UNCHANGED <<config, sources, schema, structure, deactivated, now, started, buffers, mutex, dest,
                   events, metrics, deadline, wr, fl, rs, admitted, probe, writes,
                   faults>>

\* each buffer is read under its mutex
AllUnlocked == \A s \in Shards : mutex[s] = Free

\* totalRows(): known = the destination table reports its number of rows
totalRows(known, nr) ==
    IF destination = "self"
    THEN Returned("totalRows", <<>>, nr, Unknown, TRUE)
    ELSE IF destination = "table"
    THEN IF known
         THEN Returned("totalRows", <<>>, "ok", SumRows(num_shards) + DestinationRows, TRUE)
         ELSE Returned("totalRows", <<>>, "ok", Unknown, TRUE)
    ELSE Returned("totalRows", <<>>, "ok", Unknown, FALSE)

TotalRows ==
    \E known \in BOOLEAN, nr \in NoReturn :
        /\ (destination = "table" /\ known) => AllUnlocked
        /\ Answer(totalRows(known, nr))

\* totalBytes()
totalBytes == Returned("totalBytes", <<>>, "ok", SumShardBytes(num_shards), FALSE)

TotalBytes == AllUnlocked /\ Answer(totalBytes)

\* the head of read, getQueryProcessingStage and mayBenefitFromIndexForIn:
\* getTable(destination_id) and the test for the table itself
ViaDestination(op, without, with) ==
    IF destination = "none" THEN Returned(op, <<>>, "ok", without, FALSE)
    ELSE IF destination = "missing" THEN Returned(op, <<>>, "UnknownTable", 0, FALSE)
    ELSE IF destination = "self" THEN Returned(op, <<>>, "InfiniteLoop", 0, FALSE)
    ELSE Returned(op, <<>>, "ok", with, TRUE)

\* read(): the rows of the destination table and of the buffers
Read ==
    /\ AllUnlocked
    /\ Answer(ViaDestination("read", BufferRows(num_shards),
                             BagAdd(dest, BufferRows(num_shards))))

GetQueryProcessingStage ==
    Answer(ViaDestination("getQueryProcessingStage", "FetchColumns", "destination"))

MayBenefitFromIndexForIn ==
    Answer(ViaDestination("mayBenefitFromIndexForIn", FALSE, "destination"))

\* optimize with a partition, FINAL or DEDUPLICATE
OptimizeRejected(partition, final, deduplicate) ==
    /\ partition \/ final \/ deduplicate
    /\ Answer(Returned("optimize", <<partition, final, deduplicate>>,
                       "NotImplemented", 0, FALSE))

\* optimize(partition = {}, final = false, deduplicate = false) from a query
OptimizeQuery == call.result # "running" /\ Optimize

AlterTypes ==
    {"ADD_COLUMN", "MODIFY_COLUMN", "DROP_COLUMN", "COMMENT_COLUMN",
     "MODIFY_ORDER_BY", "RENAME_COLUMN"}

\* faulty variant: RENAME_COLUMN is let through
checkAlterIsPossible_Rename(commands) ==
    \A i \in DOMAIN commands :
        commands[i] \in {"ADD_COLUMN", "MODIFY_COLUMN", "DROP_COLUMN", "COMMENT_COLUMN",
                         "RENAME_COLUMN"}

\* checkAlterIsPossible: TRUE when it does not throw
checkAlterIsPossible(commands) ==
    \A i \in DOMAIN commands :
        ~(/\ commands[i] # "ADD_COLUMN"
          /\ commands[i] # "MODIFY_COLUMN"
          /\ commands[i] # "DROP_COLUMN"
          /\ commands[i] # "COMMENT_COLUMN")

\* alter() holds the structure lock exclusively
StructureLocked == call.op = "alter" /\ call.result = "running"

\* alter(): lockStructureExclusively (which waits for the writes in progress),
\* checkAlterIsPossible, then optimize starts
Alter(commands) ==
    /\ call.result # "running"
    /\ fl[OptThread].pc = "idle"
    /\ \A w \in DOMAIN wr : wr[w].pc = "idle"
    /\ \A t \in DOMAIN rs : rs[t].pc = "idle"
    /\ schema < MaxAlters
    /\ IF checkAlterIsPossible(commands)
       THEN /\ call' = Returned("alter", commands, "running", 0, FALSE)
            /\ fl' = [fl EXCEPT ![OptThread] = [FlusherIdle EXCEPT !.pc = "enter"]]
       ELSE /\ call' = Returned("alter", commands, "NotImplemented", 0, FALSE)
            /\ UNCHANGED fl
    /\ UNCHANGED <<config, sources, schema, structure, deactivated, now, started, buffers, mutex, dest,
                   events, metrics, deadline, wr, rs, admitted, probe, writes, faults>>

\* params.apply(metadata) adds, drops or retypes a column (a comment leaves
\* the names and types as they are)
ChangesStructure(commands) ==
    \E i \in DOMAIN commands :
        commands[i] \in {"ADD_COLUMN", "MODIFY_COLUMN", "DROP_COLUMN"}

\* alter(): optimize has returned or thrown; params.apply and setColumns
AlterApply ==
    /\ call.op = "alter"
    /\ call.result = "running"
    /\ fl[OptThread].pc = "idle"
    /\ IF fl[OptThread].result = "ok"
       THEN /\ schema' = schema + 1
            /\ structure' = IF ChangesStructure(call.args) THEN structure + 1
                             ELSE structure
            /\ call' = [call EXCEPT !.result = "ok"]
       ELSE /\ call' = [call EXCEPT !.result = "threw"]
            /\ UNCHANGED <<schema, structure>>
    /\ UNCHANGED <<config, sources, deactivated, now, started, buffers, mutex, dest, events,
                   metrics, deadline, wr, fl, rs, admitted, probe, writes, faults>>

\* faulty variant: the exception of optimize leaves shutdown
ShutdownResult_Rethrow(drain) == IF drain = "threw" THEN "threw" ELSE "returned"

\* how shutdown() is over after optimize returned or threw: try / catch (...)
ShutdownResult(drain) == "returned"

\* shutdown(): deactivate (which waits for a firing in progress), then
\* optimize starts
Shutdown ==
    /\ call.result # "running"
    /\ fl[OptThread].pc = "idle"
    /\ fl[BgThread].pc = "idle"
    /\ IF ~started
       THEN /\ call' = Returned("shutdown", <<>>, "returned", "none", FALSE)
            /\ UNCHANGED <<deactivated, fl>>
       ELSE /\ deactivated' = TRUE
            /\ call' = Returned("shutdown", <<>>, "running", "none", FALSE)
            /\ fl' = [fl EXCEPT ![OptThread] =
                        [FlusherIdle EXCEPT !.pc = "enter",
                                            !.quiet = \A w \in DOMAIN wr : wr[w].pc = "idle"]]
    /\ UNCHANGED <<config, sources, schema, structure, now, started, buffers, mutex, dest, events, metrics,
                   deadline, wr, rs, admitted, probe, writes, faults>>

\* shutdown(): optimize has returned, or thrown into the catch (...) that logs
ShutdownReturn ==
    /\ call.op = "shutdown"
    /\ call.result = "running"
    /\ fl[OptThread].pc = "idle"
    /\ call' = [call EXCEPT !.result = ShutdownResult(fl[OptThread].result),
                            !.value = fl[OptThread].result]
    /\ UNCHANGED <<config, sources, schema, structure, deactivated, now, started, buffers, mutex, dest,
                   events, metrics, deadline, wr, fl, rs, admitted, probe, writes,
                   faults>>

(* ------------------------------------------------------------------------ *)
(* The specifications.                                                      *)
(* ------------------------------------------------------------------------ *)
\* the blocks that fit under the max thresholds
SmallBlocks == {b \in Blocks : BlockRows(b) \in 1..3 /\ BlockBytes(b) <= 7}

\* the steps of a writer; oks = {TRUE}: no destination write and no column
\* append throws
WriterStep(w, blocks, oks, limit) ==
    \/ \E block \in blocks, ok \in oks : WriteCall(w, block, ok, limit)
    \/ TryLock(w)
    \/ Pick(w)
    \/ BlockingLock(w)
    \/ \E ok \in oks : Insert(w, ok)
    \/ \E ok \in oks, aok \in oks : InlineFlushWrite(w, ok, aok)

FlusherStep(t, oks) ==
    \/ FlushEnter(t)
    \/ FlushLock(t)
    \/ \E ok \in oks : FlushWrite(t, ok)

RescheduleStep(t) ==
    \/ RescheduleLock(t)
    \/ RescheduleRead(t)

\* Spec: two writers and the background task; destination writes and column
\* appends may throw; every kind of destination
Next ==
    \/ Tick
    \/ Startup
    \/ Fire
    \/ \E w \in DOMAIN wr : WriterStep(w, Blocks, BOOLEAN, MaxWrites)
    \/ FlusherStep(BgThread, BOOLEAN)
    \/ \E t \in DOMAIN rs : RescheduleStep(t)

Spec == Init /\ [][Next]_vars

\* SpecOpt: one writer of blocks under the max thresholds, the background
\* task and OPTIMIZE calls, with a destination table; destination writes may
\* throw
InitOpt ==
    InitWith({1}, 2, Thresholds(0, 1, 2), Thresholds(1, 3, 7), {"table"})

NextOpt ==
    \/ Tick
    \/ Startup
    \/ Fire
    \/ Optimize
    \/ \E w \in DOMAIN wr : WriterStep(w, SmallBlocks, {TRUE}, MaxWrites)
    \/ \E t \in Flushers : FlusherStep(t, BOOLEAN)
    \/ \E t \in DOMAIN rs : RescheduleStep(t)

SpecOpt == InitOpt /\ [][NextOpt]_vars

\* SpecConc: three writer threads on two shards and the background task,
\* blocks under the max thresholds, nothing throws; every thread that can
\* take a step eventually does
ConcNow == 2

ConcBlocks == {b \in SmallBlocks : BlockRows(b) > 1}

InitConc ==
    InitWith({1, 2, 3}, 2, Thresholds(0, 1, 2), Thresholds(1, 3, 7), {"table"})

\* a step of a thread that is inside write() or flushBack()
ThreadStep ==
    \/ \E w \in DOMAIN wr :
          \/ TryLock(w)
          \/ Pick(w)
          \/ BlockingLock(w)
          \/ Insert(w, TRUE)
          \/ InlineFlushWrite(w, TRUE, TRUE)
    \/ FlusherStep(BgThread, {TRUE})
    \/ \E t \in DOMAIN rs : RescheduleStep(t)

NextConc ==
    \/ TickTo(ConcNow)
    \/ Startup
    \/ Fire
    \/ FlusherStep(BgThread, {TRUE})
    \/ \E w \in DOMAIN wr : WriterStep(w, ConcBlocks, {TRUE}, MaxWrites + 1)
    \/ \E t \in DOMAIN rs : RescheduleStep(t)

SpecConc == InitConc /\ [][NextConc]_vars /\ WF_vars(ThreadStep)

\* SpecLive: one writer and the background task with a destination table and
\* nothing throwing. A call of write() or a firing takes less than a second
\* (the clock steps between them), the last write comes two seconds before the
\* horizon; the clock goes on, a due firing happens, and a thread inside a
\* call goes on
LiveNow == 4

InitLive ==
    InitWith({1}, 2, Thresholds(0, 1, 2), Thresholds(1, 3, 7), {"table"})

NoCall ==
    /\ \A w \in DOMAIN wr : wr[w].pc = "idle"
    /\ fl[BgThread].pc = "idle"

LiveTick == NoCall /\ TickTo(LiveNow)

NextLive ==
    \/ LiveTick
    \/ Startup
    \/ Fire
    \/ \E w \in DOMAIN wr, block \in SmallBlocks :
          now + 2 <= LiveNow /\ WriteCall(w, block, TRUE, MaxWrites)
    \/ ThreadStep

SpecLive ==
    /\ InitLive
    /\ [][NextLive]_vars
    /\ WF_vars(LiveTick)
    /\ WF_vars(Fire)
    /\ WF_vars(ThreadStep)

\* SpecRetry: one writer of blocks under the max thresholds and the
\* background task over a longer time, with a destination table whose writes
\* may throw
RetryNow == 5

InitRetry ==
    InitWith({1}, 2, Thresholds(0, 1, 2), Thresholds(1, 3, 7), {"table"})

NextRetry ==
    \/ TickTo(RetryNow)
    \/ Startup
    \/ Fire
    \/ \E w \in DOMAIN wr : WriterStep(w, SmallBlocks, {TRUE}, MaxWrites)
    \/ FlusherStep(BgThread, BOOLEAN)
    \/ \E t \in DOMAIN rs : RescheduleStep(t)

SpecRetry == InitRetry /\ [][NextRetry]_vars

\* SpecMeta: one writer, queries (optimize, read, the totals and the two
\* planner questions) and every kind of destination; destination writes of
\* the drain may throw

InitMeta ==
    InitWith({1}, 2, Thresholds(0, 1, 2), Thresholds(1, 3, 7),
             {"none", "table", "missing", "self"})

NextMeta ==
    \/ Startup
    \/ \E w \in DOMAIN wr : WriterStep(w, Blocks, {TRUE}, MaxWrites)
    \/ \E t \in DOMAIN rs : RescheduleStep(t)
    \/ FlusherStep(OptThread, BOOLEAN)
    \/ OptimizeQuery
    \/ \E partition, final, deduplicate \in BOOLEAN :
          OptimizeRejected(partition, final, deduplicate)
    \/ TotalRows
    \/ TotalBytes
    \/ Read
    \/ GetQueryProcessingStage
    \/ MayBenefitFromIndexForIn

SpecMeta == InitMeta /\ [][NextMeta]_vars

\* SpecAlter: one writer and ALTER queries, with a destination table whose
\* writes may throw
AlterCommands ==
    {<<c>> : c \in AlterTypes} \cup {<<"ADD_COLUMN", c>> : c \in AlterTypes}

InitAlter ==
    InitWith({1}, 2, Thresholds(0, 1, 2), Thresholds(1, 3, 7), {"table", "none"})

NextAlter ==
    \/ Startup
    \/ ~StructureLocked /\ \E w \in DOMAIN wr : WriterStep(w, Blocks, {TRUE}, MaxWrites)
    \/ \E t \in DOMAIN rs : RescheduleStep(t)
    \/ FlusherStep(OptThread, BOOLEAN)
    \/ \E commands \in AlterCommands : Alter(commands)
    \/ AlterApply

SpecAlter == InitAlter /\ [][NextAlter]_vars

\* SpecShut: one writer of blocks under the max thresholds, the background
\* task and shutdown, with a destination table whose writes may throw
InitShut ==
    InitWith({1}, 2, Thresholds(0, 1, 2), Thresholds(1, 3, 7), {"table"})

NextShut ==
    \/ Tick
    \/ Startup
    \/ Fire
    \/ Shutdown
    \/ ShutdownReturn
    \/ \E w \in DOMAIN wr : WriterStep(w, SmallBlocks, {TRUE}, MaxWrites)
    \/ \E t \in Flushers : FlusherStep(t, BOOLEAN)
    \/ \E t \in DOMAIN rs : RescheduleStep(t)

SpecShut == InitShut /\ [][NextShut]_vars

\* SpecSched: two writers on two shards and the background task, with
\* min.time = 2 and max.time = 3 so that the delay reschedule computes depends
\* on the age; nothing throws
SchedNow == 4

InitSched ==
    InitWith({1, 2}, 2, Thresholds(2, 1, 2), Thresholds(3, 3, 7), {"table"})

NextSched ==
    \/ TickTo(SchedNow)
    \/ Startup
    \/ Fire
    \/ \E w \in DOMAIN wr : WriterStep(w, SmallBlocks, {TRUE}, MaxWrites)
    \/ FlusherStep(BgThread, {TRUE})
    \/ \E t \in DOMAIN rs : RescheduleStep(t)

SpecSched == InitSched /\ [][NextSched]_vars

\* SpecRead: one writer, the background task and queries that read, with a
\* destination table whose writes may throw
InitRead ==
    InitWith({1}, 2, Thresholds(0, 1, 2), Thresholds(1, 3, 7), {"table"})

NextRead ==
    \/ Tick
    \/ Startup
    \/ Fire
    \/ \E w \in DOMAIN wr : WriterStep(w, SmallBlocks, {TRUE}, MaxWrites)
    \/ FlusherStep(BgThread, BOOLEAN)
    \/ \E t \in DOMAIN rs : RescheduleStep(t)
    \/ \E column_names \in Requests : ReadSources(column_names)
    \/ \E s \in Shards : Generate(s)

SpecRead == InitRead /\ [][NextRead]_vars

\* SpecThresholds: calls of checkThresholdsImpl on values below, at and above
\* the thresholds, for two settings of the thresholds
MaxProbes == 2

ProbeRows == 0..5

ProbeBytes == 0..9

ProbeTimes == 0..3

ThresholdConfigs ==
    {<<Thresholds(0, 1, 2), Thresholds(1, 3, 7)>>,
     <<Thresholds(1, 2, 3), Thresholds(2, 4, 8)>>}

PassedCounters ==
    {"PassedAllMinThresholds", "PassedTimeMaxThreshold", "PassedRowsMaxThreshold",
     "PassedBytesMaxThreshold"}

\* one call of checkThresholdsImpl(rows, bytes, time_passed)
Probe(r, b, time_passed) ==
    /\ events.PassedAllMinThresholds + events.PassedTimeMaxThreshold
         + events.PassedRowsMaxThreshold + events.PassedBytesMaxThreshold
         + (IF checkThresholdsImpl(r, b, time_passed) THEN 1 ELSE 0) <= MaxProbes
    /\ probe' = [rows |-> r, bytes |-> b, time_passed |-> time_passed,
                 result |-> checkThresholdsImpl(r, b, time_passed)]
    /\ events' = ThresholdEvents(events, r, b, time_passed)
    /\ UNCHANGED <<config, control, sources, now, started, buffers, mutex, dest, metrics,
                   deadline, wr, fl, rs, admitted, writes, faults>>

InitThresholds ==
    \E c \in ThresholdConfigs : InitWith({1}, 2, c[1], c[2], {"none"})

NextThresholds ==
    \E r \in ProbeRows, b \in ProbeBytes, time_passed \in ProbeTimes :
        Probe(r, b, time_passed)

SpecThresholds == InitThresholds /\ [][NextThresholds]_vars

(* ------------------------------------------------------------------------ *)
(* Properties.                                                              *)
(* ------------------------------------------------------------------------ *)
rows(s) == Len(buffers[s].data)

\* C1: for every shard whose mutex no thread holds, data.rows() = 0 if and
\* only if first_write_time = 0
C1_EmptyIffNoFirstWriteTime ==
    \A s \in Shards :
        mutex[s] = Free => ((rows(s) = 0) <=> (buffers[s].first_write_time = 0))

\* a write() of a non-empty block has ended (returned or thrown)
Finished(w) == wr[w].pc = "idle" /\ wr[w].result \notin {"none", "empty"}

\* the block is over a max threshold, as the claims state it
OverMax(block) ==
    Len(block) > max_thresholds.rows \/ SumBytes(block) > max_thresholds.bytes

\* C2 as stated: every write of a non-empty block ends with the block in
\* exactly one shard, or (oversize) written directly to the destination and in
\* no shard; it reaches nowhere only when it is oversize and no destination is
\* configured
C2_ExactlyOneOutcome ==
    \A w \in DOMAIN wr :
        Finished(w) =>
            LET r == wr[w]
            IN  \/ ~OverMax(r.block) /\ Cardinality(r.into) = 1 /\ ~r.direct
                \/ OverMax(r.block) /\ r.direct /\ r.into = {}
                \/ OverMax(r.block) /\ destination = "none"
                   /\ r.into = {} /\ ~r.direct

\* the outcome of a write() that has ended: a write that returned put the
\* block in exactly one shard, or (oversize) in the destination table only,
\* or (oversize, no destination or no destination table) nowhere; a write that
\* threw put it nowhere
C2_Outcome ==
    \A w \in DOMAIN wr :
        Finished(w) =>
            LET r == wr[w]
            IN  IF r.result \in {"threw", "infinite_loop"}
                THEN r.into = {} /\ ~r.direct
                ELSE \/ ~OverMax(r.block) /\ Cardinality(r.into) = 1 /\ ~r.direct
                     \/ OverMax(r.block) /\ destination = "table"
                        /\ r.direct /\ r.into = {}
                     \/ OverMax(r.block) /\ destination \in {"none", "missing"}
                        /\ r.into = {} /\ ~r.direct

\* the step in which insertIntoBuffer appends: the block goes to the end of
\* the chosen shard and of no other, and not to the destination
C2_AppendStep ==
    \A w \in DOMAIN wr :
        wr[w].pc \in {"insert", "iflush"} /\ wr'[w].pc = "resched" =>
            /\ \E s \in Shards :
                  /\ buffers'[s].data \in {buffers[s].data \o wr[w].block, wr[w].block}
                  /\ \A o \in Shards \ {s} : buffers'[o] = buffers[o]
                  /\ wr'[w].into = {s}
            /\ dest' \in {dest, BagAdd(dest, BagOf(wr[w].block_to_write))}
            /\ ~wr'[w].direct

\* the step in which a write() ends without having appended: a bypass adds
\* the block to the destination and changes no shard; a throw adds the block
\* nowhere (an inline flush that failed puts the shard's own rows back, one
\* that succeeded before a failed append has sent them to the destination)
C2_OtherEndStep ==
    \A w \in DOMAIN wr :
        wr[w].pc # "resched" /\ ~Finished(w) /\ Finished(w)' =>
            /\ wr'[w].result = "bypassed" =>
                  /\ dest' = BagAdd(dest, BagOf(wr'[w].block))
                  /\ buffers' = buffers
            /\ wr'[w].result # "bypassed" =>
                  /\ dest' \in {dest, BagAdd(dest, BagOf(wr[w].block_to_write))}
                  /\ \A s \in Shards :
                        buffers'[s].data \in {buffers[s].data, wr[w].block_to_write}

\* C2 (amended): a write that returns ends in exactly one of: appended to
\* exactly one shard; oversize and written to the destination table, touching
\* no shard; oversize and dropped (no destination, or its table is missing).
\* A write that throws leaves the block in no shard and not in the destination.
C2_ReturnedWriteOutcome ==
    []C2_Outcome /\ [][C2_AppendStep /\ C2_OtherEndStep]_vars

\* a write has returned after an append and another after a bypass
C2_Witness ==
    \E w1, w2 \in DOMAIN wr :
        /\ Finished(w1) /\ wr[w1].result = "ok" /\ Cardinality(wr[w1].into) = 1
        /\ Finished(w2) /\ wr[w2].result = "bypassed" /\ wr[w2].direct

\* an OPTIMIZE that began with no write() in progress has returned true, and
\* no write() has begun since
OptimizeReturned ==
    /\ fl[OptThread].pc = "idle"
    /\ fl[OptThread].result = "ok"
    /\ fl[OptThread].quiet

Exceeded(r, b, age) ==
    \/ age > min_thresholds.time /\ r > min_thresholds.rows /\ b > min_thresholds.bytes
    \/ age > max_thresholds.time
    \/ r > max_thresholds.rows
    \/ b > max_thresholds.bytes

\* the block a thread has moved out of a shard and is writing to the destination
Moved(t) == IF t \in Flushers THEN fl[t].block_to_write ELSE wr[t].block_to_write

\* thread t is inside the destination write of a flush of shard s
Writing(t, s) ==
    IF t \in Flushers
    THEN fl[t].pc = "write" /\ fl[t].i = s
    ELSE t \in DOMAIN wr /\ wr[t].pc = "iflush" /\ wr[t].least = s

\* the step in which the destination write of a flush of shard s fails and
\* s's mutex is released
FlushFails(t, s) ==
    /\ Writing(t, s)
    /\ events'.ErrorOnFlush = events.ErrorOnFlush + 1
    /\ mutex'[s] = Free

\* the flush moves out exactly the rows the shard holds, under the mutex
C4_MovedOut ==
    \A s \in Shards, t \in Flushers \cup DOMAIN wr :
        ~Writing(t, s) /\ Writing(t, s)' =>
            /\ Moved(t)' = buffers[s].data
            /\ mutex'[s] = t

\* the failed flush puts them back and the error leaves flushBuffer
C4_PutBack ==
    \A s \in Shards, t \in Flushers \cup DOMAIN wr :
        FlushFails(t, s) =>
            /\ buffers'[s].data = Moved(t)
            /\ Len(buffers'[s].data) = Len(Moved(t))
            /\ buffers'[s].first_write_time # 0
            /\ t \in DOMAIN wr => wr'[t].pc = "idle" /\ wr'[t].result = "threw"
            /\ t = BgThread => fl'[t].pc = "resched"
            /\ t = OptThread => fl'[t].pc = "idle" /\ fl'[t].result = "threw"

PassesGate(s, check_thresholds, current_time) ==
    IF check_thresholds
    THEN Exceeded(rows(s), SumBytes(buffers[s].data),
                  TimePassed(buffers[s], current_time))
    ELSE rows(s) > 0

Reset(buffer) == buffer.data = <<>> /\ buffer.first_write_time = 0

\* while the moved-out block is being written the shard is reset and locked
C5_ResetWhileWriting ==
    \A s \in Shards, t \in Flushers \cup DOMAIN wr :
        Writing(t, s) => Reset(buffers[s]) /\ mutex[s] = t

\* flushBuffer takes the lock: past the gate the shard is reset in that step
\* (and with no destination the rows are gone), short of it nothing changes
C5_GateStep ==
    \A t \in Flushers :
        fl[t].pc = "lock" /\ fl'[t] # fl[t] =>
            LET s == fl[t].i
            IN  IF PassesGate(s, fl[t].check, fl[t].current_time)
                THEN /\ Reset(buffers'[s])
                     /\ dest' = dest
                     /\ events'.Flush = events.Flush + 1
                     /\ destination = "none" => mutex'[s] = Free
                     /\ destination # "none" => Writing(t, s)'
                ELSE /\ buffers' = buffers
                     /\ events'.Flush = events.Flush
                     /\ mutex'[s] = Free

\* the destination write returns: the mutex is released with the shard reset
C5_SuccessStep ==
    \A s \in Shards, t \in Flushers :
        Writing(t, s) /\ ~FlushFails(t, s) /\ ~Writing(t, s)' =>
            Reset(buffers'[s]) /\ mutex'[s] = Free

\* C5: a flush(s) that passes its gate and returns without error leaves shard
\* s with data.rows() = 0 and first_write_time = 0, both reset in the critical
\* section of the swap; with no destination the rows are discarded and the
\* shard is reset all the same
C5_SuccessfulFlushResets ==
    []C5_ResetWhileWriting /\ [][C5_GateStep /\ C5_SuccessStep]_vars

\* the background task has flushed a shard to the destination table
C5_Witness ==
    /\ events.Flush > 0
    /\ events.ErrorOnFlush = 0
    /\ fl[BgThread].pc = "resched"
    /\ \E s \in Shards : buffers[s].cols /\ Reset(buffers[s]) /\ mutex[s] = Free
    /\ dest = admitted
    /\ dest # EmptyBag

\* no thread is inside write() or flushBack() and no mutex is held
Quiescent ==
    /\ \A w \in DOMAIN wr : wr[w].pc = "idle"
    /\ fl[BgThread].pc = "idle"
    /\ \A s \in Shards : mutex[s] = Free

RECURSIVE ShardRows(_)
\* the rows of shards 0..n-1 as a multiset
ShardRows(n) ==
    IF n = 0 THEN EmptyBag
    ELSE BagAdd(ShardRows(n - 1), BagOf(buffers[n - 1].data))

\* a write that has returned put its block in exactly one shard
C6_ReturnedInOneShard ==
    \A w \in DOMAIN wr :
        wr[w].pc = "idle" /\ wr[w].result # "none" =>
            wr[w].result = "ok" /\ Cardinality(wr[w].into) = 1 /\ ~wr[w].direct

\* the step that admits a block appends it to one shard and changes no other
C6_AdmitStep ==
    admitted' # admitted =>
        \E w \in DOMAIN wr, s \in Shards :
            /\ mutex[s] = w
            /\ admitted' = BagAdd(admitted, BagOf(wr[w].block))
            /\ buffers'[s].data = buffers[s].data \o wr[w].block
            /\ wr'[w].into = {s}
            /\ \A o \in Shards \ {s} : buffers'[o] = buffers[o]

\* at a quiescent point the shards and the destination hold what was admitted
C6_Conservation ==
    Quiescent => BagAdd(ShardRows(num_shards), dest) = admitted

\* while a thread is inside write() or flushBack(), some thread can step
C6_NoDeadlock ==
    ~Quiescent => ENABLED ThreadStep

\* C6: with three writer threads on two shards (blocks under the max
\* thresholds, destination writes succeeding) every insert is admitted to
\* exactly one shard, at every quiescent point shard rows plus rows flushed to
\* the destination are the rows admitted, no deadlock is reachable and every
\* write call returns
C6_ConcurrentInserts ==
    /\ [](C6_ReturnedInOneShard /\ C6_Conservation /\ C6_NoDeadlock)
    /\ [][C6_AdmitStep]_vars
    /\ <>[](\A w \in DOMAIN wr : wr[w].pc = "idle")

\* the three writers have each returned from a write; two of them chose the
\* same shard, and rows are both in a shard and at the destination
C6_Witness ==
    /\ Quiescent
    /\ Cardinality(DOMAIN wr) > num_shards
    /\ \A w \in DOMAIN wr : wr[w].result = "ok"
    /\ \E v, w \in DOMAIN wr : v # w /\ wr[v].into = wr[w].into
    /\ dest # EmptyBag
    /\ \E s \in Shards : rows(s) > 0

\* a call of checkThresholdsImpl: the value returned and the counters
C7_Call ==
    LET p == probe'
    IN  /\ p.result = Exceeded(p.rows, p.bytes, p.time_passed)
        /\ IF p.result
           THEN \E c \in PassedCounters :
                   /\ events'[c] = events[c] + 1
                   /\ \A d \in DOMAIN events \ {c} : events'[d] = events[d]
           ELSE events' = events

\* C7: checkThresholdsImpl(rows, bytes, age) returns true if and only if
\* (age > min.time and rows > min.rows and bytes > min.bytes) or
\* age > max.time or rows > max.rows or bytes > max.bytes, every comparison
\* strict; a call returning true increments exactly one of the four Passed*
\* counters, a call returning false none
C7_ThresholdPredicate == [][C7_Call]_vars

\* a call with every value at its max threshold (and the age at the min
\* threshold) has returned false, after calls that passed on rows and on all
\* the min thresholds
C7_Witness ==
    /\ probe.rows = max_thresholds.rows
    /\ probe.bytes = max_thresholds.bytes
    /\ probe.time_passed = min_thresholds.time
    /\ ~probe.result
    /\ events.PassedRowsMaxThreshold = 1
    /\ events.PassedAllMinThresholds = 1

\* a call of write() that is over in the step that makes it
EndsAtOnce ==
    /\ writes' = writes + 1
    /\ \A w \in DOMAIN wr : wr[w].pc = "idle" /\ wr'[w].pc = "idle"

\* a block over a max threshold never goes on to the shards
C8_NoWalk ==
    \A w \in DOMAIN wr :
        wr[w].pc = "idle" /\ wr'[w].pc # "idle" => ~OverMax(wr'[w].block)

\* the call is over in that step: the block has gone to the destination table
\* if it is there and its write returns, and nothing else has changed
C8_BypassStep ==
    EndsAtOnce =>
        /\ buffers' = buffers
        /\ mutex' = mutex
        /\ events' = events
        /\ deadline' = deadline
        /\ rs' = rs
        /\ \E w \in DOMAIN wr :
              /\ \A v \in DOMAIN wr \ {w} : wr'[v] = wr[v]
              /\ wr'[w].into = {}
              /\ destination # "self" => OverMax(wr'[w].block)
              /\ IF wr'[w].result = "bypassed"
                 THEN /\ destination = "table"
                      /\ dest' = BagAdd(dest, BagOf(wr'[w].block))
                 ELSE dest' = dest
              /\ destination \in {"none", "missing"} => wr'[w].result = "dropped"
              /\ destination = "table" => wr'[w].result \in {"bypassed", "threw"}

\* C8: a write of a block with rows > max.rows or bytes > max.bytes sends the
\* block to the destination table (if there is one) and leaves every shard's
\* data and first_write_time, the BufferFlush counter and the deadline of the
\* background task unchanged; no shard mutex is taken
C8_OversizeBypassFrame == [][C8_NoWalk /\ C8_BypassStep]_vars

\* an oversize block has gone to the destination while a shard holds rows and
\* a firing of the background task is pending
C8_Witness ==
    \E w \in DOMAIN wr :
        /\ wr[w].pc = "idle"
        /\ wr[w].result = "bypassed"
        /\ OverMax(wr[w].block)
        /\ dest = BagOf(wr[w].block)
        /\ \E s \in Shards : rows(s) > 0 /\ buffers[s].first_write_time # 0
        /\ deadline # 0
        /\ events.Flush = 0

\* insertIntoBuffer finds rows in the shard it has locked and the thresholds
\* exceeded once the block is counted in
InlineFlushDue(w) ==
    LET s == wr[w].least
    IN  /\ wr[w].pc = "insert"
        /\ wr'[w] # wr[w]
        /\ rows(s) > 0
        /\ Exceeded(rows(s) + Len(wr[w].block),
                    SumBytes(buffers[s].data) + SumBytes(wr[w].block),
                    now - buffers[s].first_write_time)

\* the shard is emptied under the lock the writer holds; its rows are on the
\* way to the destination table, the new block is not
C9_FlushFirst ==
    \A w \in DOMAIN wr :
        InlineFlushDue(w) /\ destination # "none" =>
            LET s == wr[w].least
            IN  /\ mutex[s] = w /\ mutex'[s] = w
                /\ wr'[w].pc = "iflush"
                /\ wr'[w].block_to_write = buffers[s].data
                /\ wr'[w].current_time = now
                /\ Reset(buffers'[s])
                /\ events'.Flush = events.Flush + 1
                /\ dest' = dest

\* with no destination the rows are dropped and the block appended at once
C9_FlushFirstNoDestination ==
    \A w \in DOMAIN wr :
        InlineFlushDue(w) /\ destination = "none" /\ wr'[w].pc = "resched" =>
            LET s == wr[w].least
            IN  /\ buffers'[s].data = wr[w].block
                /\ buffers'[s].first_write_time = now
                /\ events'.Flush = events.Flush + 1
                /\ dest' = dest

\* the destination write of the inline flush has returned and the block is
\* appended: the destination has the prior rows, the shard the new block
C9_ThenAppend ==
    \A w \in DOMAIN wr :
        wr[w].pc = "iflush" /\ wr'[w].pc = "resched" =>
            LET s == wr[w].least
            IN  /\ destination = "table" =>
                      dest' = BagAdd(dest, BagOf(wr[w].block_to_write))
                /\ buffers'[s].data = wr[w].block
                /\ buffers'[s].first_write_time = wr[w].current_time
                /\ mutex'[s] = Free

\* C9: when an insert finds rows in its chosen shard and
\* exceeded(shard rows + block rows, shard bytes + block bytes,
\* now - first_write_time) holds, the shard is flushed under the lock already
\* held before the append: the destination receives exactly the shard's prior
\* rows, and after the insert the shard holds exactly the new block's rows
\* with first_write_time = now (the time insertIntoBuffer read)
C9_InlineFlushBeforeAppend ==
    [][C9_FlushFirst /\ C9_FlushFirstNoDestination /\ C9_ThenAppend]_vars

\* an inline flush has sent the first block to the destination and the shard
\* holds the second
C9_Witness ==
    \E w \in DOMAIN wr, s \in Shards :
        /\ wr[w].pc = "resched"
        /\ wr[w].into = {s}
        /\ now = 1
        /\ events.Flush = 1
        /\ events.PassedRowsMaxThreshold = 1
        /\ dest # EmptyBag
        /\ buffers[s].data = wr[w].block
        /\ buffers[s].first_write_time = now
        /\ admitted = BagAdd(dest, BagOf(wr[w].block))

\* between calls, a firing of the background task is pending whenever a shard
\* holds rows
C10_FiringPending ==
    NoCall /\ (\E s \in Shards : rows(s) > 0) => deadline # 0

\* the firing flushes a shard whose age exceeds max.time or that passes all
\* the min thresholds, and leaves a shard that does neither
C10_FiringFlushes ==
    fl[BgThread].pc = "lock" /\ fl'[BgThread].pc # "lock" =>
        LET s == fl[BgThread].i
            due == Exceeded(rows(s), SumBytes(buffers[s].data),
                            TimePassed(buffers[s], fl[BgThread].current_time))
        IN  IF due
            THEN /\ Reset(buffers'[s])
                 /\ fl'[BgThread].block_to_write = buffers[s].data
            ELSE buffers' = buffers

\* C10: if a shard becomes non-empty and no further writes occur, then, the
\* background task firing when it is due, time advancing and destination
\* writes succeeding, the shard is eventually flushed: a firing is pending
\* while any shard holds rows, and the rows reach the destination and the
\* shard becomes empty once its age exceeds max.time (or all the min
\* thresholds are passed)
C10_EventuallyFlushed ==
    /\ []C10_FiringPending
    /\ [][C10_FiringFlushes]_vars
    /\ \A s \in {0, 1} : (s \in Shards /\ rows(s) > 0) ~> (rows(s) = 0)
    /\ <>[](dest = admitted /\ \A s \in Shards : rows(s) = 0)

\* the background task, fired because the age of the one-row shard went over
\* max.time, has moved its rows to the destination
C10_Witness ==
    /\ events.PassedTimeMaxThreshold > 0
    /\ events.PassedAllMinThresholds = 0
    /\ events.PassedRowsMaxThreshold = 0
    /\ events.PassedBytesMaxThreshold = 0
    /\ NoCall
    /\ admitted # EmptyBag
    /\ dest = admitted
    /\ \A s \in Shards : rows(s) = 0

\* the background flush of shard s fails at the destination
BgFlushFails(s) == FlushFails(BgThread, s)

\* the background task is at the gate of shard s, which an earlier firing
\* failed to flush, and takes its step
BgRetryGate(s) ==
    /\ fl[BgThread].pc = "lock"
    /\ fl[BgThread].i = s
    /\ fl'[BgThread] # fl[BgThread]
    /\ buffers[s].failed
    /\ rows(s) > 0

\* C11 as stated: the firing that comes to the shard next after the failed
\* flush writes its rows to the destination again
C11_NextFiringRetries ==
    [][\A s \in Shards :
          BgRetryGate(s) => Writing(BgThread, s)' /\ Moved(BgThread)' = buffers[s].data]_vars

\* the failed flush: the rows are back, one more BufferErrorOnFlush, and the
\* age of the shard starts again at the time the flush read
C11_FailStep ==
    \A s \in Shards :
        BgFlushFails(s) =>
            /\ buffers'[s].data = fl[BgThread].block_to_write
            /\ buffers'[s].first_write_time = fl[BgThread].current_time
            /\ events'.ErrorOnFlush = events.ErrorOnFlush + 1
            /\ events'.Flush = events.Flush
            /\ buffers'[s].failed

\* a later firing writes the rows again exactly when the thresholds are
\* exceeded for the age counted from the failed flush
C11_RetryStep ==
    \A s \in Shards :
        BgRetryGate(s) =>
            /\ buffers[s].first_write_time # 0
            /\ IF Exceeded(rows(s), SumBytes(buffers[s].data),
                           fl[BgThread].current_time - buffers[s].first_write_time)
               THEN Writing(BgThread, s)' /\ Moved(BgThread)' = buffers[s].data
               ELSE buffers' = buffers /\ ~Writing(BgThread, s)'

\* until then the rows stay in the shard and a firing is pending between calls
C11_KeptAndPending ==
    \A s \in Shards :
        buffers[s].failed /\ mutex[s] = Free =>
            /\ buffers[s].first_write_time # 0
            /\ NoCall /\ rows(s) > 0 => deadline # 0

\* C11 (amended): after a background flush of a shard fails at the
\* destination the shard holds the same rows as before, BufferErrorOnFlush has
\* gone up by exactly one and first_write_time is the time of the failed flush;
\* a later firing writes the rows (with any appended since) to the destination
\* again once the thresholds are exceeded for that age, not before
C11_FailedFlushRetriedLater ==
    []C11_KeptAndPending /\ [][C11_FailStep /\ C11_RetryStep]_vars

\* the background task is writing again the rows of a flush that failed
C11_Witness ==
    \E s \in Shards :
        /\ Writing(BgThread, s)
        /\ events.ErrorOnFlush = 1
        /\ events.Flush = 2
        /\ dest = EmptyBag
        /\ BagOf(fl[BgThread].block_to_write) = admitted
        /\ admitted # EmptyBag

RECURSIVE ShardBytes(_)
\* the bytes of the data of shards 0..n-1
ShardBytes(n) ==
    IF n = 0 THEN 0 ELSE ShardBytes(n - 1) + SumBytes(buffers[n - 1].data)

RECURSIVE ShardRowCount(_)
\* the number of rows of shards 0..n-1
ShardRowCount(n) ==
    IF n = 0 THEN 0 ELSE ShardRowCount(n - 1) + Len(buffers[n - 1].data)

\* C12: at every quiescent point (no write or flush in progress) the gauge
\* BufferRows is the sum over the shards of data.rows() and BufferBytes the sum
\* of data.bytes()
C12_GaugesMatchShards ==
    Quiescent =>
        /\ metrics.Rows = ShardRowCount(num_shards)
        /\ metrics.Bytes = ShardBytes(num_shards)

(* ------------------------------------------------------------------------ *)
(* C13.  total_rows() returns the sum of all shard row counts plus the      *)
(* destination's reported rows when there is a destination, the sum of the  *)
(* shard row counts alone when there is none, and unknown only when the     *)
(* destination reports unknown; total_bytes() returns the sum of the shard  *)
(* byte counts only.                                                        *)
(* ------------------------------------------------------------------------ *)
C13_RowsAsStated ==
    (call' # call /\ call'.op = "totalRows") =>
        /\ destination = "none" => call'.value = SumRows(num_shards)
        /\ destination = "table" =>
              call'.value \in {Unknown, SumRows(num_shards) + DestinationRows}

C13_BytesAsStated ==
    (call' # call /\ call'.op = "totalBytes") =>
        call'.value = SumShardBytes(num_shards)

\* C13 as stated: totalRows is the shard rows plus the rows the destination
\* reports, the shard rows alone without a destination; totalBytes is the
\* shard bytes only
C13_Totals == [][C13_RowsAsStated /\ C13_BytesAsStated]_vars

(* ------------------------------------------------------------------------ *)
(* C14.  When destination_id resolves to the table itself, every operation  *)
(* that uses the destination (read, write, flush, mayBenefitFromIndexForIn, *)
(* getQueryProcessingStage, total_rows) fails with InfiniteLoop before any  *)
(* call into the destination, and changes no shard.                         *)
(* ------------------------------------------------------------------------ *)
DestinationUsers ==
    {"read", "mayBenefitFromIndexForIn", "getQueryProcessingStage", "totalRows"}

C14_QueryRejected ==
    (destination = "self" /\ call' # call /\ call'.op \in DestinationUsers) =>
        /\ call'.result = "InfiniteLoop"
        /\ ~call'.called
        /\ buffers' = buffers

C14_WriteRejected ==
    \A w \in DOMAIN wr :
        (destination = "self" /\ wr[w].pc = "idle" /\ wr'[w].pc = "idle"
                              /\ wr'[w] # wr[w] /\ wr'[w].block # <<>>) =>
            /\ wr'[w].result = "infinite_loop"
            /\ buffers' = buffers
            /\ dest' = dest

C14_NoFlushWrite ==
    destination = "self" => \A t \in Flushers : fl'[t].pc # "write"

\* C14 as stated: with the table as its own destination read, write,
\* mayBenefitFromIndexForIn, getQueryProcessingStage and totalRows end with
\* InfiniteLoop without a call into the destination or a change of a shard,
\* and no flush reaches the destination write
C14_SelfRejected ==
    [][C14_QueryRejected /\ C14_WriteRejected /\ C14_NoFlushWrite]_vars

(* ------------------------------------------------------------------------ *)
(* C15.  An ALTER with any command other than ADD_COLUMN, MODIFY_COLUMN,    *)
(* DROP_COLUMN or COMMENT_COLUMN fails with NotImplemented before any shard *)
(* is drained and with the schema unchanged; an accepted ALTER drains all   *)
(* shards (flush with check_thresholds = false) before the schema is        *)
(* changed, and if the drain fails the schema is left unchanged.            *)
(* ------------------------------------------------------------------------ *)
AcceptedAlterTypes == {"ADD_COLUMN", "MODIFY_COLUMN", "DROP_COLUMN", "COMMENT_COLUMN"}

\* alter() is called in this step
AlterCalled == call.result # "running" /\ call' # call /\ call'.op = "alter"

C15_Rejected ==
    (AlterCalled /\ \E i \in DOMAIN call'.args : call'.args[i] \notin AcceptedAlterTypes) =>
        /\ call'.result = "NotImplemented"
        /\ schema' = schema
        /\ buffers' = buffers
        /\ dest' = dest
        /\ fl' = fl

C15_Accepted ==
    (AlterCalled /\ \A i \in DOMAIN call'.args : call'.args[i] \in AcceptedAlterTypes) =>
        /\ call'.result = "running"
        /\ schema' = schema
        /\ fl'[OptThread].pc = "enter"
        /\ fl'[OptThread].i = 0
        /\ ~fl'[OptThread].check

C15_DrainedFirst ==
    schema' # schema =>
        /\ StructureLocked
        /\ call'.result = "ok"
        /\ fl[OptThread].result = "ok"
        /\ \A s \in Shards : buffers[s].data = <<>>
        /\ schema' = schema + 1

C15_FailedDrain ==
    (StructureLocked /\ ~StructureLocked' /\ fl[OptThread].result # "ok") =>
        /\ schema' = schema
        /\ call'.result = "threw"

\* C15: an ALTER with a command outside the four accepted ones ends with
\* NotImplemented and changes nothing; an accepted one starts a drain with
\* check_thresholds = false, the schema changes only after that drain has
\* returned with every shard empty, and not at all when the drain threw
C15_Alter == [][C15_Rejected /\ C15_Accepted /\ C15_DrainedFirst /\ C15_FailedDrain]_vars

\* an ALTER has been applied after its drain moved rows to the destination,
\* the ALTER before it having been given up when its drain failed
C15_Witness ==
    /\ call.op = "alter"
    /\ call.result = "ok"
    /\ schema = 1
    /\ events.ErrorOnFlush > 0
    /\ dest[2] > 0

(* ------------------------------------------------------------------------ *)
(* C16.  optimize with a partition, final = true or deduplicate = true      *)
(* fails with NotImplemented and leaves every shard and the destination     *)
(* unchanged; otherwise it calls flush with check_thresholds = false on     *)
(* every shard, so that on successful return every shard was emptied        *)
(* whether or not its thresholds were exceeded.                             *)
(* ------------------------------------------------------------------------ *)
C16_Rejected ==
    (call' # call /\ call'.op = "optimize") =>
        /\ \E i \in DOMAIN call'.args : call'.args[i]
        /\ call'.result = "NotImplemented"
        /\ buffers' = buffers
        /\ dest' = dest
        /\ fl' = fl

\* optimize is in flushBuffer, past the lock, in this step
C16_AtShard == fl[OptThread].pc = "lock" /\ fl'[OptThread].pc # "lock"

C16_Emptied ==
    C16_AtShard =>
        /\ ~fl[OptThread].check
        /\ buffers'[fl[OptThread].i].data = <<>>
        /\ rows(fl[OptThread].i) > 0 => events'.Flush = events.Flush + 1

C16_EveryShard ==
    /\ (fl[OptThread].pc = "idle" /\ fl'[OptThread].pc # "idle") => fl'[OptThread].i = 0
    /\ (fl[OptThread].pc # "idle" /\ fl'[OptThread].pc # "idle") =>
          fl'[OptThread].i \in {fl[OptThread].i, fl[OptThread].i + 1}
    /\ (fl[OptThread].pc # "idle" /\ fl'[OptThread].pc = "idle"
                                  /\ fl'[OptThread].result = "ok") =>
          fl[OptThread].i = num_shards - 1

\* C16: optimize with an argument set ends with NotImplemented and changes
\* nothing; otherwise it goes through the shards from the first to the last
\* with check_thresholds = false, leaving each one empty
C16_Optimize == [][C16_Rejected /\ C16_Emptied /\ C16_EveryShard]_vars

\* optimize has returned true after it emptied a shard into the destination,
\* no threshold having been passed in the run; an optimize with arguments has
\* been rejected since
C16_Witness ==
    /\ call.op = "optimize"
    /\ call.result = "NotImplemented"
    /\ fl[OptThread].pc = "idle"
    /\ fl[OptThread].result = "ok"
    /\ events.Flush > 0
    /\ events.PassedAllMinThresholds = 0
    /\ events.PassedTimeMaxThreshold = 0
    /\ events.PassedRowsMaxThreshold = 0
    /\ events.PassedBytesMaxThreshold = 0
    /\ dest[1] > 0

(* ------------------------------------------------------------------------ *)
(* C17.  shutdown deactivates the background task before draining, then     *)
(* flushes every shard with check_thresholds = false; it never propagates a *)
(* flush error to its caller, no background flush fires after it, and when  *)
(* the destination writes succeed every shard is empty when it returns.     *)
(* ------------------------------------------------------------------------ *)
ShutdownRunning == call.op = "shutdown" /\ call.result = "running"

C17_DeactivateThenDrain ==
    (~ShutdownRunning /\ ShutdownRunning') =>
        /\ deactivated'
        /\ fl[BgThread].pc = "idle"
        /\ buffers' = buffers
        /\ dest' = dest
        /\ fl'[OptThread].pc = "enter"
        /\ fl'[OptThread].i = 0
        /\ ~fl'[OptThread].check

C17_DrainSteps ==
    (ShutdownRunning /\ fl[OptThread].pc = "lock" /\ fl'[OptThread].pc # "lock") =>
        /\ ~fl[OptThread].check
        /\ buffers'[fl[OptThread].i].data = <<>>

C17_NoError ==
    (ShutdownRunning /\ ~ShutdownRunning') =>
        /\ call'.op = "shutdown"
        /\ call'.result = "returned"
        /\ (fl[OptThread].result = "ok" /\ fl[OptThread].quiet) =>
              \A s \in Shards : buffers'[s].data = <<>>

C17_NoFiringAfter ==
    /\ deactivated => deactivated'
    /\ deactivated => fl'[BgThread] = fl[BgThread]

C17_WitnessError ==
    /\ call.op = "shutdown"
    /\ call.result = "returned"
    /\ call.value = "threw"

(* ------------------------------------------------------------------------ *)
(* C18.  As stated: optimize, running while a background flush of some      *)
(* shard is in the middle of its destination write, finds the shard empty   *)
(* and goes on without waiting, so that it can return before the            *)
(* destination has received that shard's rows and a read right after misses *)
(* rows inserted before optimize started.                                   *)
(* ------------------------------------------------------------------------ *)
\* optimize has come to shard s while the background flush of s is inside its
\* destination write
C18_OptimizeMeetsFlush(s) ==
    /\ Writing(BgThread, s)
    /\ fl[BgThread].block_to_write # <<>>
    /\ fl[OptThread].pc = "lock"
    /\ fl[OptThread].i = s

C18_ReadNow == BagAdd(dest, BufferRows(num_shards))

C19_StartsChecked ==
    (fl[BgThread].pc = "idle" /\ fl'[BgThread].pc # "idle") =>
        /\ fl'[BgThread].i = 0
        /\ fl'[BgThread].check

\* the firing leaves flushBuffer for shard s in this step
C19_Leaves(s) ==
    /\ fl[BgThread].pc \in {"lock", "write"}
    /\ fl[BgThread].i = s
    /\ fl'[BgThread] # fl[BgThread]
    /\ fl'[BgThread].pc # "write"

C19_GoesOn ==
    \A s \in Shards :
        C19_Leaves(s) =>
            IF s + 1 < num_shards
            THEN /\ fl'[BgThread].pc = "enter"
                 /\ fl'[BgThread].i = s + 1
                 /\ fl'[BgThread].check
            ELSE /\ fl'[BgThread].pc = "resched"
                 /\ rs'[BgThread].pc = "lock"

\* C19 as stated: a firing starts at the first shard with check_thresholds =
\* true, and when it leaves a shard, by return or by exception, it goes to the
\* next one, and after the last one to reschedule
C19_EveryShardEachFiring == [][C19_StartsChecked /\ C19_GoesOn]_vars

(* ------------------------------------------------------------------------ *)
(* C20.  After each insert and each background firing: if the total row     *)
(* count over all shards is zero no next firing is scheduled; otherwise the *)
(* next firing is scheduled after max(1, min(min.time - age, max.time -     *)
(* age)) seconds, where age = now - the oldest first_write_time among the   *)
(* non-empty shards, and the delay is never below 1 second.                 *)
(* ------------------------------------------------------------------------ *)
\* reschedule of thread t ends in this step
C20_Ends(t) ==
    /\ rs[t].pc = "read"
    /\ rs[t].i = num_shards - 1
    /\ rs'[t].pc = "idle"

\* the oldest first_write_time among the non-empty shards
C20_Oldest ==
    CHOOSE x \in {buffers[s].first_write_time : s \in {u \in Shards : rows(u) > 0}} :
        \A s \in Shards : rows(s) > 0 => x <= buffers[s].first_write_time

C20_Delay ==
    LET age == now - C20_Oldest
    IN  Max(1, Min(min_thresholds.time - age, max_thresholds.time - age))

C20_AsStated(t) ==
    C20_Ends(t) =>
        IF SumRows(num_shards) = 0
        THEN deadline' = deadline
        ELSE /\ deadline' = now + C20_Delay
             /\ deadline' >= now + 1

\* C20 as stated: at the end of reschedule nothing is scheduled when the
\* shards hold no rows, otherwise the next firing is at now + max(1,
\* min(min.time - age, max.time - age)) with the age of the oldest non-empty
\* shard
C20_RescheduleFromOldest == [][\A t \in DOMAIN rs : C20_AsStated(t)]_vars

(* ------------------------------------------------------------------------ *)
(* C21.  As stated: at every moment each thread holds at most one shard     *)
(* mutex, and no thread attempts to acquire a second shard mutex while it   *)
(* holds one; when write returns or throws, the thread holds no shard       *)
(* mutex.                                                                   *)
(* ------------------------------------------------------------------------ *)
Threads == DOMAIN wr \cup Flushers

\* the shard mutexes thread t holds
Held(t) == {s \in Shards : mutex[s] = t}

\* thread t is about to try or wait for a shard mutex
Acquiring(t) ==
    \/ t \in DOMAIN wr /\ wr[t].pc \in {"try", "block"}
    \/ t \in Flushers /\ fl[t].pc = "lock"
    \/ t \in DOMAIN rs /\ rs[t].pc = "lock"

\* thread t is about to wait for a shard mutex (a blocking lock)
Waiting(t) ==
    \/ t \in DOMAIN wr /\ wr[t].pc = "block"
    \/ t \in Flushers /\ fl[t].pc = "lock"
    \/ t \in DOMAIN rs /\ rs[t].pc = "lock"

\* thread t is not inside write() (nor in the reschedule at its end)
OutsideWrite(t) == t \in DOMAIN wr /\ wr[t].pc = "idle"

C22_AdmittedElsewhere(w, s) ==
    /\ wr[w].pc = "resched"
    /\ wr[w].into # {}
    /\ s \notin wr[w].into

C22_ShardHidden ==
    \A t \in Flushers, s \in Shards : Writing(t, s) => mutex[s] = t

C22_OthersGoOn ==
    \A t \in Flushers, s \in Shards, w \in DOMAIN wr :
        (Writing(t, s) /\ C22_AdmittedElsewhere(w, s)) => ENABLED RescheduleStep(w)

\* C22 as stated: the shard being written out stays locked, and a writer
\* admitted to another shard can always take its next step towards returning
C22_OnlyThatShardStalls == C22_ShardHidden /\ C22_OthersGoOn

(* ------------------------------------------------------------------------ *)
(* C23.  In every reachable state each shard whose data block has columns   *)
(* (even with zero rows) has exactly the current table schema; after a      *)
(* successful ALTER no shard carries the old schema, so a following insert  *)
(* of a block with the new schema is admitted.                              *)
(* ------------------------------------------------------------------------ *)
C23_ShardHasTableSchema ==
    \A s \in Shards : buffers[s].cols => buffers[s].structure = structure

\* a block that passed the check against the table is not refused by a shard
C23_NewSchemaAdmitted ==
    \A w \in DOMAIN wr : wr[w].result # "mismatch"

\* C23 as stated: the columns of every shard that has columns are those of
\* the table, and no insert of a block with the table's columns is refused
\* for its structure
C23_SchemaKept == C23_ShardHasTableSchema /\ C23_NewSchemaAdmitted

(* ------------------------------------------------------------------------ *)
(* C24.  With start = thread id mod N, the writer inserts into the shard    *)
(* that has the fewest rows among the shards its non-blocking walk start,   *)
(* start + 1, ... (mod N, one lap) managed to lock, the earliest in walk    *)
(* order on ties, and it holds that shard's mutex from the successful       *)
(* try-lock until the append is finished; if no try-lock succeeded it takes *)
(* a blocking lock on shard start and inserts there.                        *)
(* ------------------------------------------------------------------------ *)
\* the place of shard s in the walk of writer w
WalkOrder(w, s) == (s + num_shards - (w % num_shards)) % num_shards

\* writer w is in insertIntoBuffer
Inserting(w) == wr[w].pc \in {"insert", "iflush"}

\* entry k of the walk is the earliest one with the fewest rows
Fewest(walk, k) ==
    \A j \in DOMAIN walk :
        \/ walk[k][2] < walk[j][2]
        \/ walk[k][2] = walk[j][2] /\ k <= j

C24_WalkInOrder ==
    \A w \in DOMAIN wr :
        \A i, j \in DOMAIN wr[w].walk :
            i < j => WalkOrder(w, wr[w].walk[i][1]) < WalkOrder(w, wr[w].walk[j][1])

C24_CandidateHeld ==
    \A w \in DOMAIN wr :
        (wr[w].pc \in {"try", "pick"} /\ wr[w].least # NoShard) =>
            /\ mutex[wr[w].least] = w
            /\ rows(wr[w].least) = wr[w].least_rows

C24_Chosen ==
    \A w \in DOMAIN wr :
        Inserting(w) =>
            /\ mutex[wr[w].least] = w
            /\ IF wr[w].walk = <<>>
               THEN wr[w].least = w % num_shards
               ELSE \E k \in DOMAIN wr[w].walk :
                       /\ wr[w].walk[k][1] = wr[w].least
                       /\ Fewest(wr[w].walk, k)
                       /\ wr[w].pc = "insert" => rows(wr[w].least) = wr[w].walk[k][2]

\* the append of writer w in this step goes to the shard chosen, whose mutex
\* is released with it
C24_AppendStep(w) ==
    (Inserting(w) /\ ~Inserting(w)' /\ wr'[w].into # {}) =>
        /\ wr'[w].into = {wr[w].least}
        /\ mutex'[wr[w].least] = Free
        /\ \A s \in Shards : s # wr[w].least => buffers'[s] = buffers[s]

\* C24: the shard a writer inserts into is the earliest of the shards with
\* the fewest rows among those its walk locked, in walk order from thread id
\* mod N, or that start shard under a blocking lock when the walk locked none;
\* its mutex is held from the try-lock to the end of the append
C24_LeastBusyShard ==
    /\ [](C24_WalkInOrder /\ C24_CandidateHeld /\ C24_Chosen)
    /\ [][\A w \in DOMAIN wr : C24_AppendStep(w)]_vars

\* a writer is about to insert into the second shard of its walk, which had
\* fewer rows than the first
C24_Witness ==
    \E w \in DOMAIN wr :
        /\ wr[w].pc = "insert"
        /\ Len(wr[w].walk) = 2
        /\ wr[w].walk[2][2] < wr[w].walk[1][2]
        /\ wr[w].least = wr[w].walk[2][1]

\* a writer is about to insert into the first of two shards with as many
\* rows, both locked in its walk
C24_WitnessTie ==
    \E w \in DOMAIN wr :
        /\ wr[w].pc = "insert"
        /\ Len(wr[w].walk) = 2
        /\ wr[w].walk[2][2] = wr[w].walk[1][2]
        /\ wr[w].least = wr[w].walk[1][1]

\* a writer is about to insert under the blocking lock
C24_WitnessBlocking ==
    \E w \in DOMAIN wr : wr[w].pc = "insert" /\ wr[w].walk = <<>>

(* ------------------------------------------------------------------------ *)
(* C25.  A shard's read source emits at most one chunk, equal to the        *)
(* shard's contents projected to the requested columns at the moment it     *)
(* took the shard mutex, and then ends (an empty shard emits no chunk);     *)
(* appends to or flushes of that shard performed after the snapshot do not  *)
(* change the rows of the chunk already emitted.                            *)
(* ------------------------------------------------------------------------ *)
\* the source of shard s has emitted a chunk
Emitted(s) == sources[s].chunks # <<>>

C25_OneChunkOfSnapshot ==
    \A s \in Shards :
        /\ Len(sources[s].chunks) <= 1
        /\ Emitted(s) =>
              /\ sources[s].seen # <<>>
              /\ sources[s].chunks[1].size = Len(sources[s].seen)
              /\ DOMAIN sources[s].chunks[1].columns = sources[s].column_names
              /\ \A name \in sources[s].column_names :
                    /\ Len(sources[s].chunks[1].columns[name]) = Len(sources[s].seen)
                    /\ \A i \in 1..Len(sources[s].seen) :
                          sources[s].chunks[1].columns[name][i] =
                             Value(name, sources[s].seen[i])
        /\ sources[s].ended => sources[s].has_been_read \/ sources[s].column_names = {}

\* generate() of the source of shard s is called for the first time in this step
C25_FirstCall(s) == ~sources[s].has_been_read /\ sources'[s].has_been_read

C25_GenerateStep ==
    \A s \in Shards :
        /\ C25_FirstCall(s) =>
              /\ mutex[s] = Free
              /\ IF rows(s) = 0
                 THEN sources'[s].chunks = <<>> /\ sources'[s].ended
                 ELSE /\ sources'[s].seen = buffers[s].data
                      /\ Len(sources'[s].chunks) = 1
                      /\ ~sources'[s].ended
        /\ (sources[s].has_been_read /\ sources'[s].has_been_read) =>
              /\ sources'[s].chunks = sources[s].chunks
              /\ sources[s].ended => sources'[s].ended

\* C25: each source has emitted at most one chunk, which holds, for every
\* column asked for, the values of the rows the shard held when generate()
\* had its mutex, whatever has been appended to or flushed from the shard
\* since; an empty shard gives no chunk; after its first call the source emits
\* nothing more
C25_ReadSnapshot == []C25_OneChunkOfSnapshot /\ [][C25_GenerateStep]_vars

\* a chunk has been emitted for a shard that has been appended to since
C25_Witness ==
    \E s \in Shards :
        /\ Emitted(s)
        /\ sources[s].ended
        /\ Len(buffers[s].data) > Len(sources[s].seen)
        /\ sources[s].chunks[1].size = Len(sources[s].seen)

\* a chunk has been emitted for a shard that has been flushed since
C25_WitnessFlushed ==
    \E s \in Shards :
        /\ Emitted(s)
        /\ rows(s) = 0
        /\ dest[sources[s].seen[1]] > 0

(* ------------------------------------------------------------------------ *)
(* C26.  When the inline flush triggered inside an insert fails at the      *)
(* destination, the write raises the error, the new block is not appended   *)
(* to any shard, and the chosen shard holds exactly the rows it held before *)
(* the insert.                                                              *)
(* ------------------------------------------------------------------------ *)
\* the inline flush of writer w begins in this step
C26_FlushBegins(w) == wr[w].pc = "insert" /\ wr'[w].pc = "iflush"

\* the destination write of the inline flush of writer w throws in this step
C26_FlushThrows(w) ==
    /\ wr[w].pc = "iflush"
    /\ wr'[w].pc = "idle"
    /\ events'.ErrorOnFlush = events.ErrorOnFlush + 1

C26_Step(w) ==
    /\ C26_FlushBegins(w) =>
          /\ wr'[w].block_to_write = buffers[wr[w].least].data
          /\ wr'[w].least = wr[w].least
          /\ wr'[w].block = wr[w].block
    /\ C26_FlushThrows(w) =>
          /\ wr'[w].result = "threw"
          /\ wr'[w].into = {}
          /\ admitted' = admitted
          /\ dest' = dest
          /\ buffers'[wr[w].least].data = wr[w].block_to_write
          /\ \A s \in Shards : s # wr[w].least => buffers'[s] = buffers[s]
          /\ mutex'[wr[w].least] = Free
          /\ metrics'.Rows = metrics.Rows + Len(wr[w].block_to_write)

\* C26: the inline flush moves out the rows the chosen shard holds, and when
\* its destination write throws, write() throws, that shard holds those same
\* rows again, no other shard has changed and the new block is in no shard
\* and not in the destination
C26_FailedInlineFlush == [][\A w \in DOMAIN wr : C26_Step(w)]_vars

\* a write of a block under the max thresholds has thrown, the only failure
\* of the run being a flush error, and the shards hold the rows admitted
\* before it
C26_Witness ==
    \E w \in DOMAIN wr :
        /\ wr[w].pc = "idle"
        /\ wr[w].result = "threw"
        /\ ~OverMax(wr[w].block)
        /\ faults = 1
        /\ events.ErrorOnFlush = 1
        /\ fl[BgThread].pc = "idle"
        /\ dest = EmptyBag
        /\ ShardRows(num_shards) = admitted
        /\ \E s \in Shards : rows(s) > 0 /\ ~buffers[s].failed

(* ------------------------------------------------------------------------ *)
(* C27.  Whenever the mutex of a shard is free, the shard holds no more     *)
(* than max.rows rows and max.bytes bytes.                                  *)
(* ------------------------------------------------------------------------ *)
WithinMax(data) ==
    Len(data) <= max_thresholds.rows /\ SumBytes(data) <= max_thresholds.bytes

\* C27: in every state in which the mutex of a shard is free, the rows of
\* that shard are at most max.rows and its bytes at most max.bytes, whatever
\* inserts and flushes came before, failed destination writes and a missing
\* destination included
C27_FreeShardWithinMax ==
    \A s \in Shards : mutex[s] = Free => WithinMax(buffers[s].data)

\* a shard that held rows has taken a block that would have crossed a max
\* threshold together with them: the inline flush came first (its
\* destination write returned or threw), and the shard with its mutex free is
\* within the limits
C27_Witness ==
    \E w \in DOMAIN wr, s \in Shards :
        /\ wr[w].pc = "idle"
        /\ wr[w].result = "ok"
        /\ wr[w].into = {s}
        /\ mutex[s] = Free
        /\ buffers[s].data = wr[w].block
        /\ events.PassedRowsMaxThreshold + events.PassedBytesMaxThreshold > 0
        /\ events.ErrorOnFlush = 0

\* a write into a shard whose rows were put back by a failed inline flush did
\* not add to them
C27_WitnessFailed ==
    \E w \in DOMAIN wr, s \in Shards :
        /\ wr[w].pc = "idle"
        /\ wr[w].result = "threw"
        /\ ~OverMax(wr[w].block)
        /\ mutex[s] = Free
        /\ rows(s) > 0
        /\ ~WithinMax(buffers[s].data \o wr[w].block)
        /\ events.ErrorOnFlush = 1
        /\ faults = 1

==========================================================================
